---- MODULE Spec2Model ----
(***************************************************************************)
(* Model of the vsp debug daemon (cmd/vsp/daemon.go): the single-session   *)
(* slot of DebugDaemon, the DebugSession objects, the HTTP handlers        *)
(* running as concurrent goroutines, and the background listener           *)
(* goroutine started by POST /session.                                     *)
(*                                                                         *)
(* A step of the model is one access to shared memory (slot or session     *)
(* fields) together with the goroutine-local code around it.  The calls    *)
(* to the SAP debugger (adt.Client) are the environment: their results     *)
(* are chosen nondeterministically.  The step call of POST /step is a step *)
(* of its own, so that a DELETE /session can fall between the test of the  *)
(* status and the call.  FairSpec is the daemon with the scheduling of the *)
(* goroutines and the return of every call to SAP as fairness conditions.  *)
(*                                                                         *)
(* The functions of the adt package that the daemon does not drive are     *)
(* modelled each by a specification of its own, which follows one call     *)
(* for every input of a bounded set: TimeoutSpec (the timeout of the       *)
(* listener), ReaderSpec (the read operations of adt.Client), MethodSpec   *)
(* (GetClassMethodSource), PackageSpec (GetPackage), GraphSpec             *)
(* (FlattenCallGraph, AnalyzeCallGraph), CompareSpec (CompareCallGraphs),  *)
(* ExtractSpec (ExtractCallEdgesFromTrace), ExecSpec (TraceExecution),     *)
(* WriteSpec (the lifecycle of WriteObject), TransportSpec (the CSRF       *)
(* token of the HTTP transport), PolicySpec (the safety policy) and        *)
(* MsgClassSpec (modifyMessageClassXML).  Each specification keeps the     *)
(* variables of the others at their initial values.                        *)
(***************************************************************************)
EXTENDS Integers, Sequences, FiniteSets, TLC

\* ---------------------------------------------------------------- bounds
\* Number of HTTP requests the daemon receives in one run.
MaxRequests == 3
\* DebugSession objects allocated in one run: the k-th needs k POST /session
\* and k-1 DELETE /session before it.
MaxSessions == (MaxRequests + 1) \div 2

\* ------------------------------------------------------------- constants
StatusOK == 200
StatusBadRequest == 400
StatusNotFound == 404
StatusMethodNotAllowed == 405
StatusConflict == 409
StatusInternalServerError == 500

\* longest object name handed to a read operation, in characters
MaxNameLen == 3

\* most lines of a class source
MaxLines == 3

\* most nodes of a nodestructure response
MaxNodes == 3

\* most nodes of a call graph
MaxTreeNodes == 4

\* most edges of an edge list handed to CompareCallGraphs
MaxEdges == 2

\* most entries of a trace handed to ExtractCallEdgesFromTrace
MaxEntries == 5

\* most includes one WriteObject call carries
MaxIncludes == 3

\* most messages records of a message-class document
MaxMessages == 2

\* largest "timeout" a POST /session body carries (and, negated, the smallest)
MaxTimeout == 301

\* daemon.go:323  req.Timeout = 60
DefaultTimeout == 60
\* daemon.go:153  adt.WithTimeout(5*time.Minute), in seconds
FiveMinutes == 300

\* ----------------------------------------------------------------- tasks
\* Goroutines: HTTP handlers (two concurrent requests) and one listener per
\* session object.
Handlers == {<<"handler", 1>>, <<"handler", 2>>}
SessionIds == 1..MaxSessions
ListenerOf(s) == <<"listener", s>>
Free == <<"free", 0>>
Nil == 0

\* -------------------------------------------------- environment's answers
FrameA == [URI |-> "/prog/A", Line |-> 10]
FrameB == [URI |-> "/prog/B", Line |-> 20]
\* a *DebugStackInfo returned by DebuggerGetStack: nil, or a stack
StackInfos == {[isNil |-> TRUE, Stack |-> <<>>],
               [isNil |-> FALSE, Stack |-> <<>>],
               [isNil |-> FALSE, Stack |-> <<FrameA>>],
               [isNil |-> FALSE, Stack |-> <<FrameB, FrameA>>]}
NilStackInfo == [isNil |-> TRUE, Stack |-> <<>>]
VarResults == {<<>>, <<"V1">>}
\* outcome of DebuggerListen: (result, err)
ListenResults == {"err", "nilResult", "timedOut", "nilDebuggee", "debuggee"}
DebuggeeIds == {"D1"}
ListenErr == "listen failed"
AttachErr == "attach failed"

\* body of POST /step after decoding: invalid JSON, or the "type" field
StepBodies == {"badjson", "", "stepInto", "stepOver", "stepReturn",
               "stepContinue", "stepRunToLine", "stepJumpToLine",
               "terminate", "bogus"}

VARIABLES
    slot,    \* DebugDaemon.session: Nil or a session
    dmu,     \* DebugDaemon.mu: Free or the task holding it
    nsess,   \* number of DebugSession objects allocated so far
    nreq,    \* number of HTTP requests received so far
    sess,    \* fields of each DebugSession
    smu,     \* DebugSession.mu of each session: Free or the task holding it
    lpc,     \* position of each session's runListener goroutine
    lres,    \* runListener's local (result, err) of DebuggerListen
    hpc,     \* position of each handler goroutine
    ls,      \* handler-local variable `session`
    body,    \* handler-local decoded request (step type)
    resp,    \* the response written by the last step, if any
    acc,     \* accesses to shared memory made by the last step
    calls,   \* calls to the SAP debugger made by the last step
    bpreq    \* the POST /breakpoint body decoded by the last step, if any

\* state of the start of one listener, followed from the decoded request to
\* the options of the long-poll (specification TimeoutSpec)
VARIABLES
    tpc,            \* position in startSession / runListener
    sentTimeout,    \* the "timeout" of the request body, NoTimeout if absent
    reqTimeout,     \* StartSessionRequest.Timeout
    listenTimeout   \* ListenOptions.TimeoutSeconds

\* state of one call of a read operation of adt.Client (specification
\* ReaderSpec)
VARIABLES
    rpc,           \* position of the call
    rcall,         \* the operation called and its name arguments
    policyAllows,  \* what Safety.CheckOperation answers for class Read
    checks,        \* the calls of checkSafety made so far
    requests       \* the paths handed to transport.Request so far

\* state of one call of GetClassMethodSource (specification MethodSpec)
VARIABLES
    mpc,        \* position of the call
    mcall,      \* the methodName argument
    structure,  \* the methods of the class SAP will report
    source,     \* the main source of the class SAP will deliver, as lines
    method,     \* the local *MethodInfo
    mresult     \* what the call returned

\* state of one call of GetPackage (specification PackageSpec)
VARIABLES
    kpc,          \* position of the call
    pkgArg,       \* the package name the caller passed
    packageName,  \* the variable packageName
    data,         \* the body of the response SAP will give
    nodeIdx,      \* index of the node the loop is at
    pkg,          \* the local *PackageContent
    kresult       \* what the call returned

\* state of one call of FlattenCallGraph or AnalyzeCallGraph (specification
\* GraphSpec)
VARIABLES
    gpc,       \* position of the call
    gfun,      \* the function called
    root,      \* the root argument
    gstack,    \* the activations of the closure traverse, innermost last
    edges,     \* FlattenCallGraph: var edges []CallGraphEdge
    stats,     \* AnalyzeCallGraph: *stats
    seen,      \* AnalyzeCallGraph: the keys of the map seen
    maxDepth   \* AnalyzeCallGraph: var maxDepth int

\* state of one call of CompareCallGraphs (specification CompareSpec)
VARIABLES
    cpc,          \* position of the call
    staticEdges,  \* the argument staticEdges
    actualEdges,  \* the argument actualEdges
    staticSet,    \* the map staticSet
    actualSet,    \* the map actualSet
    ranged,       \* the keys the running range loop over a map has visited
    comp          \* *comp

\* state of one call of ExtractCallEdgesFromTrace (specification
\* ExtractSpec)
VARIABLES
    xpc,          \* position of the call
    entries,      \* the argument entries
    entryIdx,     \* index of the entry the range loop is at
    prevProgram,  \* var prevProgram string
    xseen,        \* the keys of the map seen
    xedges        \* var edges []CallGraphEdge

\* state of one call of Client.TraceExecution (specification ExecSpec)
VARIABLES
    epc,     \* position of the call
    opts,    \* the argument *opts
    result,  \* *result
    ecalls,  \* the calls of other Client methods made so far, with their outcomes
    eret     \* what the call returned

\* state of one call of WriteObject of the LifecycleEngine (specification
\* WriteSpec)
VARIABLES
    wpc,       \* position of the call
    wreq,      \* the arguments: whether the object exists, the sources, the options
    wlock,     \* SAP: the handle of the lock the caller holds on the object, or NoHandle
    whandle,   \* the lock handle the call owns
    widx,      \* index of the include the loop is at
    wupdated,  \* SAP: the includes whose source was replaced, in order
    wcalls,    \* the calls made to SAP so far, with their outcomes
    wpending,  \* the outcome the call will report once Unlock was attempted
    wresult    \* what the call returned

\* state of one call of Transport.Request (specification TransportSpec)
VARIABLES
    qpc,      \* position of the call
    qreq,     \* the request: method and path
    token,    \* the cached CSRF token, NoToken if none is cached
    issued,   \* SAP: the number of tokens issued so far
    retried,  \* whether the request was already sent again
    qlast,    \* the response to the request sent last
    qlog,     \* the HTTP exchanges made so far
    qresult   \* what the call returned

\* state of one call of Client.checkSafety (specification PolicySpec)
VARIABLES
    ppc,        \* position of the call
    policy,     \* c.config.Safety
    pop,        \* the operation class and the name the check is about
    prule,      \* the rule of the SafetyPolicy being evaluated
    pdecision   \* what the call returned

\* state of one call of modifyMessageClassXML (specification MsgClassSpec)
VARIABLES
    mcpc,         \* position of the call
    xmlInput,     \* the document handed in, as its pieces
    updates,      \* the update map: msgno to new text, empty text to delete
    lockHandles,  \* the lock-handle map: msgno to lock handle
    xmlOut,       \* the document being edited
    applied,      \* the msgnos of the update map dealt with so far
    updatedMap,   \* the map of updated msgnos
    deletedList,  \* the list of deleted msgnos
    mcret         \* what the call returned

daemonVars == <<slot, dmu, nsess, nreq, sess, smu, lpc, lres, hpc, ls, body,
                resp, acc, calls, bpreq>>
timeoutVars == <<tpc, sentTimeout, reqTimeout, listenTimeout>>
\* the variables the daemon model leaves alone
readerVars == <<rpc, rcall, policyAllows, checks, requests>>
methodVars == <<mpc, mcall, structure, source, method, mresult>>
packageVars == <<kpc, pkgArg, packageName, data, nodeIdx, pkg, kresult>>
graphVars == <<gpc, gfun, root, gstack, edges, stats, seen, maxDepth>>
compareVars == <<cpc, staticEdges, actualEdges, staticSet, actualSet, ranged,
                 comp>>
extractVars == <<xpc, entries, entryIdx, prevProgram, xseen, xedges>>
execVars == <<epc, opts, result, ecalls, eret>>
writeVars == <<wpc, wreq, wlock, whandle, widx, wupdated, wcalls, wpending,
               wresult>>
transportVars == <<qpc, qreq, token, issued, retried, qlast, qlog, qresult>>
policyVars == <<ppc, policy, pop, prule, pdecision>>
msgclassVars == <<mcpc, xmlInput, updates, lockHandles, xmlOut, applied,
                  updatedMap, deletedList, mcret>>
aux == <<timeoutVars, readerVars, methodVars, packageVars, graphVars,
         compareVars, extractVars, execVars, writeVars, transportVars,
         policyVars, msgclassVars>>
vars == <<daemonVars, aux>>

\* a request body without "timeout"
NoTimeout == [present |-> FALSE, value |-> 0]
Timeout(v) == [present |-> TRUE, value |-> v]

\* no call of a read operation
NoCall == [op |-> "none", name |-> <<>>, group |-> <<>>]

\* var method *MethodInfo (nil), and a call that has not returned
NilMethod == [isNil |-> TRUE, Name |-> <<>>, ImplementationStart |-> 0,
              ImplementationEnd |-> 0]
NoResult == [kind |-> "none", lines |-> <<>>]

\* a response body of length 0, a nil *PackageContent, a call that has not
\* returned
EmptyBody == [kind |-> "empty", nodes |-> <<>>]
NilPackage == [isNil |-> TRUE, Name |-> <<>>, Objects |-> <<>>,
               SubPackages |-> <<>>]
NoPackageResult == [kind |-> "none", pkg |-> NilPackage]

\* a nil *CallGraphNode, and &CallGraphStats{NodesByType: make(map[string]int)}
\* (a key a Go map does not hold reads as 0)
NilNode == [isNil |-> TRUE]
NodeKinds == {"CLAS/OM", "PROG/P"}
NewStats == [TotalNodes |-> 0, TotalEdges |-> 0, MaxDepth |-> 0,
             NodesByType |-> [t \in NodeKinds |-> 0], UniqueNodes |-> <<>>]

\* a Go map without keys, and &CallGraphComparison{} (the float64
\* CoverageRatio is held as the fraction the code divides out)
EmptyMap == [k \in {} |-> 0]
Ratio(num, den) == [num |-> num, den |-> den]
NewComparison == [CommonEdges |-> <<>>, StaticOnly |-> <<>>,
                  ActualOnly |-> <<>>, CoverageRatio |-> Ratio(0, 1)]

\* &TraceExecutionResult{} (a nil pointer or slice is "nil"), the options of
\* no call and a call that has not returned
NewExecResult == [StaticGraph |-> "nil", Trace |-> "nil", ActualEdges |-> "nil",
                  Comparison |-> "nil", StaticStats |-> "nil",
                  ExecutedTests |-> "nil", ExecutionTime |-> 0]
NoOpts == [ObjectURI |-> "", MaxDepth |-> 0, RunTests |-> FALSE,
           TestObjectURI |-> "", TraceUser |-> ""]
NoExecReturn == [returned |-> FALSE, result |-> NewExecResult, err |-> "nil"]

\* no lock handle, the arguments of no call and a call that has not returned
NoHandle == ""
NoWrite == [exists |-> TRUE, sources |-> <<>>, CreateIfMissing |-> FALSE,
            Activate |-> FALSE]
WriteResult(status, include, handle, partial) ==
    [status |-> status, include |-> include, handle |-> handle,
     PartialSuccess |-> partial]
NoWriteResult == WriteResult("none", "", NoHandle, <<>>)

\* no cached CSRF token, no request, no response
NoToken == 0
NoRequest == [Method |-> "", path |-> ""]
Response(status, required) == [Status |-> status, csrfRequired |-> required]
NoResponse == Response(0, FALSE)

\* the SafetyPolicy, operation and decision of no call
NoPolicy == [mode |-> "full", AllowedPackages |-> {}, BlockedPackages |-> {}]
NoOperation == [class |-> "Read", name |-> <<>>]
Decision(kind, rule, reason) == [kind |-> kind, rule |-> rule, reason |-> reason]
NoDecision == Decision("none", 0, "")

\* a call of modifyMessageClassXML that has not returned
ModifyResult(returned, bytes, upd, del) ==
    [returned |-> returned, result |-> bytes, updated |-> upd, deleted |-> del]
NoModifyResult == ModifyResult(FALSE, <<>>, EmptyMap, <<>>)

\* zero value of a DebugSession before startSession fills it
NewSession == [Status |-> "waiting", DebuggeeID |-> "", Error |-> "",
               Breakpoints |-> <<>>,
               Stack |-> <<>>, CurrentURI |-> "", CurrentLine |-> 0,
               Variables |-> <<>>]

\* a response: the handler, the HTTP status code, the success flag of the
\* APIResponse (true from writeSuccess, the only writer of 200, false from
\* writeError) and, of the JSON data, the session status (or step type) and
\* the session id it reports
NoBpReq == [Kind |-> "none"]
NoResp == [h |-> Free, op |-> "none", code |-> 0, success |-> FALSE,
           status |-> "", id |-> Nil]
Resp(op, code, status, id) ==
    [op |-> op, code |-> code, success |-> (code = StatusOK),
     status |-> status, id |-> id]

\* one access to shared memory: obj = Nil is the daemon's slot, otherwise a
\* session; held tells whether the task held the mutex guarding obj.
Access(t, obj, field, write, held) ==
    [task |-> t, obj |-> obj, field |-> field, write |-> write, held |-> held]
Call(name, s, ok) == [name |-> name, sess |-> s, ok |-> ok]

DaemonInit ==
    /\ slot = Nil
    /\ dmu = Free
    /\ nsess = 0
    /\ nreq = 0
    /\ sess = [s \in SessionIds |-> NewSession]
    /\ smu = [s \in SessionIds |-> Free]
    /\ lpc = [s \in SessionIds |-> "none"]
    /\ lres = [s \in SessionIds |-> "none"]
    /\ hpc = [h \in Handlers |-> "idle"]
    /\ ls = [h \in Handlers |-> Nil]
    /\ body = [h \in Handlers |-> ""]
    /\ resp = NoResp
    /\ acc = {}
    /\ calls = {}
    /\ bpreq = NoBpReq

\* no listener start is being followed
TimeoutIdle ==
    /\ tpc = "none"
    /\ sentTimeout = NoTimeout
    /\ reqTimeout = 0
    /\ listenTimeout = 0

\* no read operation is being followed
ReaderIdle ==
    /\ rpc = "none"
    /\ rcall = NoCall
    /\ policyAllows = TRUE
    /\ checks = <<>>
    /\ requests = <<>>

\* no call of GetClassMethodSource is being followed
MethodIdle ==
    /\ mpc = "none"
    /\ mcall = <<>>
    /\ structure = <<>>
    /\ source = <<>>
    /\ method = NilMethod
    /\ mresult = NoResult

\* no call of GetPackage is being followed
PackageIdle ==
    /\ kpc = "none"
    /\ pkgArg = <<>>
    /\ packageName = <<>>
    /\ data = EmptyBody
    /\ nodeIdx = 0
    /\ pkg = NilPackage
    /\ kresult = NoPackageResult

\* no call-graph function is being followed
GraphIdle ==
    /\ gpc = "none"
    /\ gfun = "none"
    /\ root = NilNode
    /\ gstack = <<>>
    /\ edges = <<>>
    /\ stats = NewStats
    /\ seen = {}
    /\ maxDepth = 0

\* no call of CompareCallGraphs is being followed
CompareIdle ==
    /\ cpc = "none"
    /\ staticEdges = <<>>
    /\ actualEdges = <<>>
    /\ staticSet = EmptyMap
    /\ actualSet = EmptyMap
    /\ ranged = {}
    /\ comp = NewComparison

\* no call of ExtractCallEdgesFromTrace is being followed
ExtractIdle ==
    /\ xpc = "none"
    /\ entries = <<>>
    /\ entryIdx = 0
    /\ prevProgram = <<>>
    /\ xseen = {}
    /\ xedges = <<>>

\* no call of TraceExecution is being followed
ExecIdle ==
    /\ epc = "none"
    /\ opts = NoOpts
    /\ result = NewExecResult
    /\ ecalls = <<>>
    /\ eret = NoExecReturn

\* no call of WriteObject is being followed
WriteIdle ==
    /\ wpc = "none"
    /\ wreq = NoWrite
    /\ wlock = NoHandle
    /\ whandle = NoHandle
    /\ widx = 0
    /\ wupdated = <<>>
    /\ wcalls = <<>>
    /\ wpending = NoWriteResult
    /\ wresult = NoWriteResult

\* no call of Transport.Request is being followed
TransportIdle ==
    /\ qpc = "none"
    /\ qreq = NoRequest
    /\ token = NoToken
    /\ issued = 0
    /\ retried = FALSE
    /\ qlast = NoResponse
    /\ qlog = <<>>
    /\ qresult = NoResponse

\* no call of checkSafety is being followed
PolicyIdle ==
    /\ ppc = "none"
    /\ policy = NoPolicy
    /\ pop = NoOperation
    /\ prule = 0
    /\ pdecision = NoDecision

\* no call of modifyMessageClassXML is being followed
MsgclassIdle ==
    /\ mcpc = "none"
    /\ xmlInput = <<>>
    /\ updates = EmptyMap
    /\ lockHandles = EmptyMap
    /\ xmlOut = <<>>
    /\ applied = {}
    /\ updatedMap = EmptyMap
    /\ deletedList = <<>>
    /\ mcret = NoModifyResult

Init ==
    /\ DaemonInit
    /\ TimeoutIdle
    /\ ReaderIdle
    /\ MethodIdle
    /\ PackageIdle
    /\ GraphIdle
    /\ CompareIdle
    /\ ExtractIdle
    /\ ExecIdle
    /\ WriteIdle
    /\ TransportIdle
    /\ PolicyIdle
    /\ MsgclassIdle

\* a handler finishes: writes its response and returns
Finish(h, r) ==
    /\ hpc' = [hpc EXCEPT ![h] = "idle"]
    /\ ls' = [ls EXCEPT ![h] = Nil]
    /\ body' = [body EXCEPT ![h] = ""]
    /\ resp' = [h |-> h, op |-> r.op, code |-> r.code, success |-> r.success,
                status |-> r.status, id |-> r.id]

Goto(h, pc) == hpc' = [hpc EXCEPT ![h] = pc]

\* an idle handler goroutine is given the next request
Receive(h) ==
    /\ hpc[h] = "idle"
    /\ nreq < MaxRequests
    /\ nreq' = nreq + 1


\* ------------------------------------------------------- POST /session
\* the conflict test, were it to protect only a session still waiting
SessionActiveWaitingOnly(sl, st) == sl # Nil /\ st = "waiting"

\* daemon.go:330  d.session != nil && d.session.Status != "stopped"
SessionActive(sl, st) == sl # Nil /\ st # "stopped"

StatusOfSlot == IF slot = Nil THEN "" ELSE sess[slot].Status

\* startSession, d.mu.Lock() (daemon.go:329)
StartLock(h) ==
    /\ Receive(h)
    /\ nsess < MaxSessions
    /\ dmu = Free
    /\ dmu' = h
    /\ Goto(h, "start_check")
    /\ acc' = {}
    /\ calls' = {}
    /\ UNCHANGED <<slot, nsess, sess, smu, lpc, lres, ls, body>> /\ resp' = NoResp
    /\ bpreq' = NoBpReq /\ UNCHANGED aux

\* startSession, the critical section under d.mu (daemon.go:330-347): the
\* conflict test, or the allocation and publication of the new session and
\* the go statement that starts its listener
StartCheck(h) ==
    /\ hpc[h] = "start_check"
    /\ dmu = h
    /\ dmu' = Free
    /\ calls' = {}
    /\ acc' = {Access(h, Nil, "session", FALSE, dmu = h)} \cup
              (IF slot # Nil
                 THEN {Access(h, slot, "Status", FALSE, smu[slot] = h)}
                 ELSE {}) \cup
              (IF SessionActive(slot, StatusOfSlot)
                 THEN {}
                 ELSE {Access(h, Nil, "session", TRUE, dmu = h)})
    /\ IF SessionActive(slot, StatusOfSlot)
         THEN /\ Finish(h, Resp("startSession", StatusConflict, "", Nil))
              /\ UNCHANGED <<slot, nsess, sess, smu, lpc, lres>>
         ELSE /\ nsess' = nsess + 1
              /\ sess' = [sess EXCEPT ![nsess + 1] = NewSession]
              /\ slot' = nsess + 1
              /\ lpc' = [lpc EXCEPT ![nsess + 1] = "listen"]
              /\ ls' = [ls EXCEPT ![h] = nsess + 1]
              /\ Goto(h, "start_resp")
              /\ UNCHANGED <<smu, lres, body>> /\ resp' = NoResp
    /\ UNCHANGED nreq
    /\ bpreq' = NoBpReq /\ UNCHANGED aux

\* startSession, writeSuccess (daemon.go:349-355): reads session.ID and
\* session.Status without the session's mutex
StartResp(h) ==
    /\ hpc[h] = "start_resp"
    /\ Finish(h, Resp("startSession", StatusOK, sess[ls[h]].Status, ls[h]))
    /\ acc' = {Access(h, ls[h], "Status", FALSE, smu[ls[h]] = h)}
    /\ calls' = {}
    /\ UNCHANGED <<nreq, slot, dmu, nsess, sess, smu, lpc, lres>>
    /\ bpreq' = NoBpReq /\ UNCHANGED aux

\* -------------------------------------------------------- GET /session
\* getSession, d.mu.RLock(); session := d.session; d.mu.RUnlock()
GetSlot(h) ==
    /\ Receive(h)
    /\ dmu = Free
    /\ acc' = {Access(h, Nil, "session", FALSE, dmu = Free)}
    /\ calls' = {}
    /\ IF slot = Nil
         THEN Finish(h, Resp("getSession", StatusOK, "no_session", Nil))
         ELSE /\ ls' = [ls EXCEPT ![h] = slot]
              /\ Goto(h, "get_read")
              /\ UNCHANGED <<body>> /\ resp' = NoResp
    /\ UNCHANGED <<slot, dmu, nsess, sess, smu, lpc, lres>>
    /\ bpreq' = NoBpReq /\ UNCHANGED aux

\* getSession, session.mu.RLock(); writeSuccess(w, session)
GetRead(h) ==
    /\ hpc[h] = "get_read"
    /\ smu[ls[h]] = Free
    /\ Finish(h, Resp("getSession", StatusOK, sess[ls[h]].Status, ls[h]))
    /\ acc' = {Access(h, ls[h], f, FALSE, smu[ls[h]] = Free) :
                 f \in {"Status", "DebuggeeID", "Error", "Stack",
                        "CurrentURI", "CurrentLine", "Variables"}}
    /\ calls' = {}
    /\ UNCHANGED <<nreq, slot, dmu, nsess, sess, smu, lpc, lres>>
    /\ bpreq' = NoBpReq /\ UNCHANGED aux

\* ----------------------------------------------------- DELETE /session
\* daemon.go:440  session.DebuggeeID != ""
NeedsDetach(dbg) == dbg # ""

\* the stop, were it to apply only to an attached session
StopStatusAttachedOnly(old) == IF old = "attached" THEN "stopped" ELSE old

\* daemon.go:445
StopStatus(old) == "stopped"

\* stopSession, d.mu.Lock(); session := d.session; d.mu.Unlock()
StopSlot(h) ==
    /\ Receive(h)
    /\ dmu = Free
    /\ acc' = {Access(h, Nil, "session", FALSE, dmu = Free)}
    /\ calls' = {}
    /\ IF slot = Nil
         THEN Finish(h, Resp("stopSession", StatusNotFound, "", Nil))
         ELSE /\ ls' = [ls EXCEPT ![h] = slot]
              /\ Goto(h, "stop_detach")
              /\ UNCHANGED <<body>> /\ resp' = NoResp
    /\ UNCHANGED <<slot, dmu, nsess, sess, smu, lpc, lres>>
    /\ bpreq' = NoBpReq /\ UNCHANGED aux

\* stopSession, the unlocked test of DebuggeeID and the detach call
\* (daemon.go:440-442); the call's result is ignored
StopDetach(h) ==
    /\ hpc[h] = "stop_detach"
    /\ acc' = {Access(h, ls[h], "DebuggeeID", FALSE, smu[ls[h]] = h)}
    /\ IF NeedsDetach(sess[ls[h]].DebuggeeID)
         THEN \E ok \in BOOLEAN : calls' = {Call("DebuggerDetach", ls[h], ok)}
         ELSE calls' = {}
    /\ Goto(h, "stop_set")
    /\ UNCHANGED <<nreq, slot, dmu, nsess, sess, smu, lpc, lres, ls, body>> /\ resp' = NoResp
    /\ bpreq' = NoBpReq /\ UNCHANGED aux

\* the end of stopSession, were it to take the session out of the slot
StopSetEmptiesSlot(h) ==
    /\ hpc[h] = "stop_set"
    /\ smu[ls[h]] = Free
    /\ sess' = [sess EXCEPT ![ls[h]].Status = StopStatus(@)]
    /\ slot' = IF slot = ls[h] THEN Nil ELSE slot
    /\ acc' = {Access(h, ls[h], "Status", TRUE, smu[ls[h]] = Free)}
    /\ calls' = {}
    /\ Finish(h, Resp("stopSession", StatusOK, "", ls[h]))
    /\ UNCHANGED <<nreq, dmu, nsess, smu, lpc, lres>>
    /\ bpreq' = NoBpReq /\ UNCHANGED aux

\* stopSession, session.mu.Lock(); Status = "stopped"; Unlock(); response
StopSet(h) ==
    /\ hpc[h] = "stop_set"
    /\ smu[ls[h]] = Free
    /\ sess' = [sess EXCEPT ![ls[h]].Status = StopStatus(@)]
    /\ acc' = {Access(h, ls[h], "Status", TRUE, smu[ls[h]] = Free)}
    /\ calls' = {}
    /\ Finish(h, Resp("stopSession", StatusOK, "", ls[h]))
    /\ UNCHANGED <<nreq, slot, dmu, nsess, smu, lpc, lres>>
    /\ bpreq' = NoBpReq /\ UNCHANGED aux

\* --------------------------------------------------------- runListener
NoDebuggee == {"nilResult", "timedOut", "nilDebuggee"}

\* the outcome, were the test of a nil debuggee missing
ListenOutcomeNoNilCheck(se, r, d) ==
    IF r = "err"
      THEN [se EXCEPT !.Status = "error", !.Error = "listen failed"]
      ELSE IF r \in {"nilResult", "timedOut"}
             THEN [se EXCEPT !.Status = "timeout"]
             ELSE [se EXCEPT !.DebuggeeID = d, !.Status = "caught"]

\* daemon.go:376-395: the session after the long-poll returned r, with
\* debuggee id d
ListenOutcome(se, r, d) ==
    IF r = "err"
      THEN [se EXCEPT !.Status = "error", !.Error = ListenErr]
      ELSE IF r \in NoDebuggee
             THEN [se EXCEPT !.Status = "timeout"]
             ELSE [se EXCEPT !.DebuggeeID = d, !.Status = "caught"]

\* the attach, were its error ignored
AttachOutcomeIgnoreErr(se, ok) == [se EXCEPT !.Status = "attached"]

\* daemon.go:402-412: the session after the attach call
AttachOutcome(se, ok) ==
    IF ok THEN [se EXCEPT !.Status = "attached"]
          ELSE [se EXCEPT !.Status = "attach_failed", !.Error = AttachErr]

GetStackResults == {[err |-> TRUE, info |-> NilStackInfo]} \cup
                   {[err |-> FALSE, info |-> i] : i \in StackInfos}

\* daemon.go:415-420: the initial stack
HasFrames(r) == ~r.err /\ ~r.info.isNil /\ Len(r.info.Stack) > 0

InitialStack(se, r) ==
    IF HasFrames(r)
      THEN [se EXCEPT !.Stack = r.info.Stack,
                      !.CurrentURI = r.info.Stack[1].URI,
                      !.CurrentLine = r.info.Stack[1].Line]
      ELSE se

\* runListener, d.client.DebuggerListen returns (daemon.go:371)
Listen(s) ==
    /\ lpc[s] = "listen"
    /\ \E r \in ListenResults :
         /\ lres' = [lres EXCEPT ![s] = r]
         /\ calls' = {Call("DebuggerListen", s, r # "err")}
    /\ lpc' = [lpc EXCEPT ![s] = "outcome"]
    /\ acc' = {}
    /\ UNCHANGED <<nreq, slot, dmu, nsess, sess, smu, hpc, ls, body>> /\ resp' = NoResp
    /\ bpreq' = NoBpReq /\ UNCHANGED aux

\* the outcome of the long-poll, were the listener to write it to the
\* session it finds in the slot
ListenerOutcomeOnSlot(s) ==
    /\ lpc[s] = "outcome"
    /\ smu[s] = Free
    /\ \E d \in DebuggeeIds :
         sess' = [sess EXCEPT ![slot] = ListenOutcome(@, lres[s], d)]
    /\ IF lres[s] = "err" \/ lres[s] \in NoDebuggee
         THEN /\ lpc' = [lpc EXCEPT ![s] = "done"]
              /\ smu' = smu
              /\ acc' = {Access(ListenerOf(s), s, f, TRUE, smu[s] = Free) :
                           f \in IF lres[s] = "err" THEN {"Status", "Error"}
                                                     ELSE {"Status"}}
         ELSE /\ lpc' = [lpc EXCEPT ![s] = "attach"]
              /\ smu' = [smu EXCEPT ![s] = ListenerOf(s)]
              /\ acc' = {Access(ListenerOf(s), s, f, TRUE, smu[s] = Free) :
                           f \in {"DebuggeeID", "Status"}}
    /\ calls' = {}
    /\ lres' = [lres EXCEPT ![s] = IF lres[s] = "debuggee" THEN @ ELSE "none"]
    /\ UNCHANGED <<nreq, slot, dmu, nsess, hpc, ls, body>> /\ resp' = NoResp
    /\ bpreq' = NoBpReq /\ UNCHANGED aux

\* runListener, session.mu.Lock() and the outcome of the long-poll
\* (daemon.go:373-395); the deferred Unlock runs on the two early returns
ListenerOutcome(s) ==
    /\ lpc[s] = "outcome"
    /\ smu[s] = Free
    /\ \E d \in DebuggeeIds :
         sess' = [sess EXCEPT ![s] = ListenOutcome(@, lres[s], d)]
    /\ IF lres[s] = "err" \/ lres[s] \in NoDebuggee
         THEN /\ lpc' = [lpc EXCEPT ![s] = "done"]
              /\ smu' = smu
              /\ acc' = {Access(ListenerOf(s), s, f, TRUE, smu[s] = Free) :
                           f \in IF lres[s] = "err" THEN {"Status", "Error"}
                                                     ELSE {"Status"}}
         ELSE /\ lpc' = [lpc EXCEPT ![s] = "attach"]
              /\ smu' = [smu EXCEPT ![s] = ListenerOf(s)]
              /\ acc' = {Access(ListenerOf(s), s, f, TRUE, smu[s] = Free) :
                           f \in {"DebuggeeID", "Status"}}
    /\ calls' = {}
    /\ lres' = [lres EXCEPT ![s] = IF lres[s] = "debuggee" THEN @ ELSE "none"]
    /\ UNCHANGED <<nreq, slot, dmu, nsess, hpc, ls, body>> /\ resp' = NoResp
    /\ bpreq' = NoBpReq /\ UNCHANGED aux

\* the auto-attach, were a failed attach to return without a word
ListenerAttachReturnsCaught(s) ==
    /\ lpc[s] = "attach"
    /\ smu[s] = ListenerOf(s)
    /\ \E ok \in BOOLEAN :
         /\ sess' = [sess EXCEPT ![s] = IF ok THEN AttachOutcome(@, ok) ELSE @]
         /\ calls' = {Call("DebuggerAttach", s, ok)}
         /\ IF ok
              THEN /\ lpc' = [lpc EXCEPT ![s] = "stack"]
                   /\ smu' = smu
                   /\ acc' = {Access(ListenerOf(s), s, "Status", TRUE,
                                     smu[s] = ListenerOf(s))}
              ELSE /\ lpc' = [lpc EXCEPT ![s] = "done"]
                   /\ smu' = [smu EXCEPT ![s] = Free]
                   /\ acc' = {Access(ListenerOf(s), s, f, TRUE,
                                     smu[s] = ListenerOf(s)) :
                                f \in {"Status", "Error"}}
    /\ UNCHANGED <<nreq, slot, dmu, nsess, lres, hpc, ls, body>> /\ resp' = NoResp
    /\ bpreq' = NoBpReq /\ UNCHANGED aux

\* runListener, the auto-attach (daemon.go:402-412), still under the lock
ListenerAttach(s) ==
    /\ lpc[s] = "attach"
    /\ smu[s] = ListenerOf(s)
    /\ \E ok \in BOOLEAN :
         /\ sess' = [sess EXCEPT ![s] = AttachOutcome(@, ok)]
         /\ calls' = {Call("DebuggerAttach", s, ok)}
         /\ IF ok
              THEN /\ lpc' = [lpc EXCEPT ![s] = "stack"]
                   /\ smu' = smu
                   /\ acc' = {Access(ListenerOf(s), s, "Status", TRUE,
                                     smu[s] = ListenerOf(s))}
              ELSE /\ lpc' = [lpc EXCEPT ![s] = "done"]
                   /\ smu' = [smu EXCEPT ![s] = Free]
                   /\ acc' = {Access(ListenerOf(s), s, f, TRUE,
                                     smu[s] = ListenerOf(s)) :
                                f \in {"Status", "Error"}}
    /\ UNCHANGED <<nreq, slot, dmu, nsess, lres, hpc, ls, body>> /\ resp' = NoResp
    /\ bpreq' = NoBpReq /\ UNCHANGED aux

\* the end of runListener, were the deferred Unlock missing
ListenerStackKeepsLock(s) ==
    /\ lpc[s] = "stack"
    /\ smu[s] = ListenerOf(s)
    /\ \E r \in GetStackResults :
         /\ sess' = [sess EXCEPT ![s] = InitialStack(@, r)]
         /\ calls' = {Call("DebuggerGetStack", s, ~r.err)}
         /\ acc' = IF HasFrames(r)
                     THEN {Access(ListenerOf(s), s, f, TRUE, smu[s] = ListenerOf(s)) :
                             f \in {"Stack", "CurrentURI", "CurrentLine"}}
                     ELSE {}
    /\ lpc' = [lpc EXCEPT ![s] = "done"]
    /\ UNCHANGED <<nreq, slot, dmu, nsess, smu, lres, hpc, ls, body>> /\ resp' = NoResp
    /\ bpreq' = NoBpReq /\ UNCHANGED aux

\* runListener, the initial stack (daemon.go:415-420) and the deferred
\* Unlock and close(ListenerDone)
ListenerStack(s) ==
    /\ lpc[s] = "stack"
    /\ smu[s] = ListenerOf(s)
    /\ \E r \in GetStackResults :
         /\ sess' = [sess EXCEPT ![s] = InitialStack(@, r)]
         /\ calls' = {Call("DebuggerGetStack", s, ~r.err)}
         /\ acc' = IF HasFrames(r)
                     THEN {Access(ListenerOf(s), s, f, TRUE, smu[s] = ListenerOf(s)) :
                             f \in {"Stack", "CurrentURI", "CurrentLine"}}
                     ELSE {}
    /\ lpc' = [lpc EXCEPT ![s] = "done"]
    /\ smu' = [smu EXCEPT ![s] = Free]
    /\ UNCHANGED <<nreq, slot, dmu, nsess, lres, hpc, ls, body>> /\ resp' = NoResp
    /\ bpreq' = NoBpReq /\ UNCHANGED aux


\* ---------------------------------------------------------- POST /step
\* the test, were it to turn away a stopped session only
NoAttachedSessionStoppedOnly(sl, st) == sl = Nil \/ st = "stopped"

\* daemon.go:614  session == nil || session.Status != "attached"
NoAttachedSession(sl, st) == sl = Nil \/ st # "attached"

\* daemon.go:625-649: the step type of a decoded body, "" when invalid
StepTypes == {"stepInto", "stepOver", "stepReturn", "stepContinue",
              "stepRunToLine", "stepJumpToLine", "terminate"}
StepTypeOf(b) == IF b = "" THEN "stepOver"
                 ELSE IF b \in StepTypes THEN b ELSE ""

\* daemon.go:660-666: the session after a successful step whose stack
\* refresh returned info
StepUpdateSession(se, typ, info) ==
    IF ~info.isNil /\ Len(info.Stack) > 0
      THEN [se EXCEPT !.Stack = info.Stack,
                      !.CurrentURI = info.Stack[1].URI,
                      !.CurrentLine = info.Stack[1].Line]
      ELSE se

\* handleStep, d.mu.RLock(); session := d.session; d.mu.RUnlock(), and the
\* answer when there is no session (daemon.go:610-617)
StepSlot(h) ==
    /\ Receive(h)
    /\ dmu = Free
    /\ acc' = {Access(h, Nil, "session", FALSE, dmu = Free)}
    /\ calls' = {}
    /\ IF slot = Nil
         THEN Finish(h, Resp("handleStep", StatusBadRequest, "", Nil))
         ELSE /\ ls' = [ls EXCEPT ![h] = slot]
              /\ Goto(h, "step_check")
              /\ UNCHANGED <<body>> /\ resp' = NoResp
    /\ UNCHANGED <<slot, dmu, nsess, sess, smu, lpc, lres>>
    /\ bpreq' = NoBpReq /\ UNCHANGED aux

\* handleStep, the unlocked test of session.Status (daemon.go:614-617)
StepCheck(h) ==
    /\ hpc[h] = "step_check"
    /\ acc' = {Access(h, ls[h], "Status", FALSE, smu[ls[h]] = h)}
    /\ calls' = {}
    /\ IF NoAttachedSession(ls[h], sess[ls[h]].Status)
         THEN Finish(h, Resp("handleStep", StatusBadRequest, "", ls[h]))
         ELSE /\ Goto(h, "step_call")
              /\ UNCHANGED <<ls, body>> /\ resp' = NoResp
    /\ UNCHANGED <<nreq, slot, dmu, nsess, sess, smu, lpc, lres>>
    /\ bpreq' = NoBpReq /\ UNCHANGED aux

\* handleStep, the decoding of the body and the step call
\* (daemon.go:619-656); it touches no shared memory
StepCall(h) ==
    /\ hpc[h] = "step_call"
    /\ acc' = {}
    /\ \E b \in StepBodies :
         IF b = "badjson" \/ StepTypeOf(b) = ""
           THEN /\ Finish(h, Resp("handleStep", StatusBadRequest, "", ls[h]))
                /\ calls' = {}
           ELSE \E ok \in BOOLEAN :
                  /\ calls' = {Call("DebuggerStep", ls[h], ok)}
                  /\ IF ok
                       THEN /\ body' = [body EXCEPT ![h] = StepTypeOf(b)]
                            /\ Goto(h, "step_update")
                            /\ UNCHANGED <<ls>> /\ resp' = NoResp
                       ELSE Finish(h, Resp("handleStep",
                                           StatusInternalServerError, "", ls[h]))
    /\ UNCHANGED <<nreq, slot, dmu, nsess, sess, smu, lpc, lres>>
    /\ bpreq' = NoBpReq /\ UNCHANGED aux

\* handleStep, the stack refresh and the update of the session under its
\* mutex (daemon.go:659-668)
StepUpdate(h) ==
    /\ hpc[h] = "step_update"
    /\ smu[ls[h]] = Free
    /\ \E r \in GetStackResults :
         /\ sess' = [sess EXCEPT ![ls[h]] = StepUpdateSession(@, body[h], r.info)]
         /\ calls' = {Call("DebuggerGetStack", ls[h], ~r.err)}
         /\ acc' = IF HasFrames(r)
                     THEN {Access(h, ls[h], f, TRUE, smu[ls[h]] = Free) :
                             f \in {"Stack", "CurrentURI", "CurrentLine"}}
                     ELSE {}
    /\ Finish(h, Resp("handleStep", StatusOK, body[h], ls[h]))
    /\ UNCHANGED <<nreq, slot, dmu, nsess, smu, lpc, lres>>
    /\ bpreq' = NoBpReq /\ UNCHANGED aux

\* ---------------------------------------------------------- GET /stack
\* the update of handleStack, were it to store the stack and leave the
\* current position as it was
StackUpdateSessionStackOnly(se, info) ==
    IF info.isNil THEN se ELSE [se EXCEPT !.Stack = info.Stack]

\* daemon.go:694-702: the session after handleStack received info
StackUpdateSession(se, info) ==
    IF info.isNil THEN se
    ELSE IF Len(info.Stack) > 0
           THEN [se EXCEPT !.Stack = info.Stack,
                           !.CurrentURI = info.Stack[1].URI,
                           !.CurrentLine = info.Stack[1].Line]
           ELSE [se EXCEPT !.Stack = info.Stack]

\* handleStack, the read of the slot (daemon.go:677-684)
StackSlot(h) ==
    /\ Receive(h)
    /\ dmu = Free
    /\ acc' = {Access(h, Nil, "session", FALSE, dmu = Free)}
    /\ calls' = {}
    /\ IF slot = Nil
         THEN Finish(h, Resp("handleStack", StatusBadRequest, "", Nil))
         ELSE /\ ls' = [ls EXCEPT ![h] = slot]
              /\ Goto(h, "stack_check")
              /\ UNCHANGED <<body>> /\ resp' = NoResp
    /\ UNCHANGED <<slot, dmu, nsess, sess, smu, lpc, lres>>
    /\ bpreq' = NoBpReq /\ UNCHANGED aux

\* handleStack, the unlocked test of session.Status and the stack call
\* (daemon.go:681-691)
StackCheck(h) ==
    /\ hpc[h] = "stack_check"
    /\ acc' = {Access(h, ls[h], "Status", FALSE, smu[ls[h]] = h)}
    /\ IF NoAttachedSession(ls[h], sess[ls[h]].Status)
         THEN /\ Finish(h, Resp("handleStack", StatusBadRequest, "", ls[h]))
              /\ calls' = {}
         ELSE \E ok \in BOOLEAN :
                /\ calls' = {Call("DebuggerGetStack", ls[h], ok)}
                /\ IF ok
                     THEN /\ Goto(h, "stack_update")
                          /\ UNCHANGED <<ls, body>> /\ resp' = NoResp
                     ELSE Finish(h, Resp("handleStack",
                                         StatusInternalServerError, "", ls[h]))
    /\ UNCHANGED <<nreq, slot, dmu, nsess, sess, smu, lpc, lres>>
    /\ bpreq' = NoBpReq /\ UNCHANGED aux

\* handleStack, the update of the session under its mutex (daemon.go:694-704)
StackUpdate(h) ==
    /\ hpc[h] = "stack_update"
    /\ smu[ls[h]] = Free
    /\ \E info \in StackInfos :
         /\ sess' = [sess EXCEPT ![ls[h]] = StackUpdateSession(@, info)]
         /\ acc' = IF info.isNil THEN {}
                   ELSE {Access(h, ls[h], f, TRUE, smu[ls[h]] = Free) :
                           f \in IF Len(info.Stack) > 0
                                   THEN {"Stack", "CurrentURI", "CurrentLine"}
                                   ELSE {"Stack"}}
    /\ calls' = {}
    /\ Finish(h, Resp("handleStack", StatusOK, "", ls[h]))
    /\ UNCHANGED <<nreq, slot, dmu, nsess, smu, lpc, lres>>
    /\ bpreq' = NoBpReq /\ UNCHANGED aux

\* ------------------------------------------------- GET|POST /variables
\* handleVariables, the read of the slot (daemon.go:708-715)
VarsSlot(h) ==
    /\ Receive(h)
    /\ dmu = Free
    /\ acc' = {Access(h, Nil, "session", FALSE, dmu = Free)}
    /\ calls' = {}
    /\ IF slot = Nil
         THEN Finish(h, Resp("handleVariables", StatusBadRequest, "", Nil))
         ELSE /\ ls' = [ls EXCEPT ![h] = slot]
              /\ Goto(h, "vars_check")
              /\ UNCHANGED <<body>> /\ resp' = NoResp
    /\ UNCHANGED <<slot, dmu, nsess, sess, smu, lpc, lres>>
    /\ bpreq' = NoBpReq /\ UNCHANGED aux

\* handleVariables, the unlocked test of session.Status and the variables
\* call (daemon.go:712-734)
VarsCheck(h) ==
    /\ hpc[h] = "vars_check"
    /\ acc' = {Access(h, ls[h], "Status", FALSE, smu[ls[h]] = h)}
    /\ IF NoAttachedSession(ls[h], sess[ls[h]].Status)
         THEN /\ Finish(h, Resp("handleVariables", StatusBadRequest, "", ls[h]))
              /\ calls' = {}
         ELSE \E ok \in BOOLEAN :
                /\ calls' = {Call("DebuggerGetVariables", ls[h], ok)}
                /\ IF ok
                     THEN /\ Goto(h, "vars_update")
                          /\ UNCHANGED <<ls, body>> /\ resp' = NoResp
                     ELSE Finish(h, Resp("handleVariables",
                                         StatusInternalServerError, "", ls[h]))
    /\ UNCHANGED <<nreq, slot, dmu, nsess, sess, smu, lpc, lres>>
    /\ bpreq' = NoBpReq /\ UNCHANGED aux

\* handleVariables, the update of the session under its mutex
\* (daemon.go:737-741)
VarsUpdate(h) ==
    /\ hpc[h] = "vars_update"
    /\ smu[ls[h]] = Free
    /\ \E v \in VarResults :
         sess' = [sess EXCEPT ![ls[h]].Variables = v]
    /\ acc' = {Access(h, ls[h], "Variables", TRUE, smu[ls[h]] = Free)}
    /\ calls' = {}
    /\ Finish(h, Resp("handleVariables", StatusOK, "", ls[h]))
    /\ UNCHANGED <<nreq, slot, dmu, nsess, smu, lpc, lres>>
    /\ bpreq' = NoBpReq /\ UNCHANGED aux

\* ------------------------------------------ POST|DELETE /breakpoint
\* bodies of POST /breakpoint after decoding (SetBreakpointRequest)
BpReq(kind, uri, line, exc, stmt) ==
    [Kind |-> kind, URI |-> uri, Line |-> line, Exception |-> exc,
     Statement |-> stmt]
BpBodies ==
    {[Kind |-> "badjson"]} \cup
    {BpReq(k, "", 0, "", "") : k \in {"", "bogus"}} \cup
    {BpReq("line", u, l, "", "") : u \in {"", FrameA.URI}, l \in {0, FrameA.Line}} \cup
    {BpReq("exception", "", 0, e, "") : e \in {"", "CX_ROOT"}} \cup
    {BpReq("statement", "", 0, "", t) : t \in {"", "WRITE"}}

\* the validation of a line breakpoint, were it to look at the uri only
BreakpointInputErrorUriOnly(req) ==
    IF req.Kind = "badjson" THEN "invalid JSON"
    ELSE IF req.Kind = "" THEN "kind is required"
    ELSE IF req.Kind = "line"
           THEN IF req.URI = ""
                  THEN "line breakpoint requires uri and line" ELSE ""
    ELSE IF req.Kind = "exception"
           THEN IF req.Exception = ""
                  THEN "exception breakpoint requires exception class" ELSE ""
    ELSE IF req.Kind = "statement"
           THEN IF req.Statement = ""
                  THEN "statement breakpoint requires statement type" ELSE ""
    ELSE "invalid kind"

\* daemon.go:475-520: the message of the 400 setBreakpoint answers to a
\* decoded body, "" when the body passes
BreakpointInputError(req) ==
    IF req.Kind = "badjson" THEN "invalid JSON"
    ELSE IF req.Kind = "" THEN "kind is required"
    ELSE IF req.Kind = "line"
           THEN IF req.URI = "" \/ req.Line = 0
                  THEN "line breakpoint requires uri and line" ELSE ""
    ELSE IF req.Kind = "exception"
           THEN IF req.Exception = ""
                  THEN "exception breakpoint requires exception class" ELSE ""
    ELSE IF req.Kind = "statement"
           THEN IF req.Statement = ""
                  THEN "statement breakpoint requires statement type" ELSE ""
    ELSE "invalid kind"

\* answers of SetExternalBreakpoint: an error, a nil result, a result
\* without breakpoints, a result with the breakpoint as SAP registered it
SetBreakpointResults == {"err", "nil", "empty", "one"}

\* daemon.go:534-556: the BreakpointInfo tracked in the session, from the
\* first returned breakpoint or, failing that, from the request
BpInfoOf(req, res) ==
    [ID |-> IF res = "one" THEN "bp-1" ELSE "",
     Kind |-> req.Kind, URI |-> req.URI, Line |-> req.Line,
     Exception |-> req.Exception, Statement |-> req.Statement]

\* setBreakpoint, decoding, validation, the call to SAP and, when that
\* succeeded, d.mu.Lock() (daemon.go:474-558); the code before the lock
\* touches no shared memory
SetBreakpoint(h) ==
    /\ Receive(h)
    /\ acc' = {}
    /\ \E req \in BpBodies :
         /\ bpreq' = req
         /\ IF BreakpointInputError(req) # ""
              THEN /\ Finish(h, Resp("setBreakpoint", StatusBadRequest, "", Nil))
                   /\ calls' = {}
                   /\ dmu' = dmu
              ELSE \E res \in SetBreakpointResults :
                     /\ calls' = {Call("SetExternalBreakpoint", Nil, res # "err")}
                     /\ IF res = "err"
                          THEN /\ Finish(h, Resp("setBreakpoint",
                                                 StatusInternalServerError, "", Nil))
                               /\ dmu' = dmu
                          ELSE /\ dmu = Free
                               /\ dmu' = h
                               /\ body' = [body EXCEPT ![h] = BpInfoOf(req, res)]
                               /\ Goto(h, "track_append")
                               /\ UNCHANGED <<ls>> /\ resp' = NoResp
    /\ UNCHANGED <<slot, nsess, sess, smu, lpc, lres>>
    /\ UNCHANGED aux

\* the end of setBreakpoint, were a stopped session in the slot to be passed
\* over
TrackAppendUnlessStopped(h) ==
    /\ hpc[h] = "track_append"
    /\ dmu = h
    /\ slot # Nil => smu[slot] = Free
    /\ dmu' = Free
    /\ IF slot # Nil /\ sess[slot].Status # "stopped"
         THEN /\ sess' = [sess EXCEPT ![slot].Breakpoints = Append(@, body[h])]
              /\ acc' = {Access(h, Nil, "session", FALSE, dmu = h),
                         Access(h, slot, "Breakpoints", TRUE, smu[slot] = Free)}
         ELSE /\ sess' = sess
              /\ acc' = {Access(h, Nil, "session", FALSE, dmu = h)}
    /\ calls' = {}
    /\ Finish(h, Resp("setBreakpoint", StatusOK, "", Nil))
    /\ UNCHANGED <<nreq, slot, nsess, smu, lpc, lres>>
    /\ bpreq' = NoBpReq /\ UNCHANGED aux

\* setBreakpoint, the append to the breakpoints of the session in the slot
\* under both mutexes (daemon.go:559-566)
TrackAppend(h) ==
    /\ hpc[h] = "track_append"
    /\ dmu = h
    /\ slot # Nil => smu[slot] = Free
    /\ dmu' = Free
    /\ IF slot # Nil
         THEN /\ sess' = [sess EXCEPT ![slot].Breakpoints = Append(@, body[h])]
              /\ acc' = {Access(h, Nil, "session", FALSE, dmu = h),
                         Access(h, slot, "Breakpoints", TRUE, smu[slot] = Free)}
         ELSE /\ sess' = sess
              /\ acc' = {Access(h, Nil, "session", FALSE, dmu = h)}
    /\ calls' = {}
    /\ Finish(h, Resp("setBreakpoint", StatusOK, "", Nil))
    /\ UNCHANGED <<nreq, slot, nsess, smu, lpc, lres>>
    /\ bpreq' = NoBpReq /\ UNCHANGED aux

\* listBreakpoints (daemon.go:569-580)
ListBreakpoints(h) ==
    /\ Receive(h)
    /\ acc' = {}
    /\ \E ok \in BOOLEAN :
         /\ calls' = {Call("GetExternalBreakpoints", Nil, ok)}
         /\ Finish(h, Resp("listBreakpoints",
                           IF ok THEN StatusOK ELSE StatusInternalServerError,
                           "", Nil))
    /\ UNCHANGED <<slot, dmu, nsess, sess, smu, lpc, lres>>
    /\ bpreq' = NoBpReq /\ UNCHANGED aux

\* deleteBreakpoint, were it to report the deletion whatever SAP answered
DeleteBreakpointIgnoreErr(h) ==
    /\ Receive(h)
    /\ acc' = {}
    /\ \E id \in {"", "bp-1"} :
         IF id = ""
           THEN /\ Finish(h, Resp("deleteBreakpoint", StatusBadRequest, "", Nil))
                /\ calls' = {}
           ELSE \E ok \in BOOLEAN :
                  /\ calls' = {Call("DeleteExternalBreakpoint", Nil, ok)}
                  /\ Finish(h, Resp("deleteBreakpoint", StatusOK, "", Nil))
    /\ UNCHANGED <<slot, dmu, nsess, sess, smu, lpc, lres>>
    /\ bpreq' = NoBpReq /\ UNCHANGED aux

\* deleteBreakpoint (daemon.go:582-601): the id of the query string, the
\* call to SAP; the breakpoints tracked in the session are not touched
DeleteBreakpoint(h) ==
    /\ Receive(h)
    /\ acc' = {}
    /\ \E id \in {"", "bp-1"} :
         IF id = ""
           THEN /\ Finish(h, Resp("deleteBreakpoint", StatusBadRequest, "", Nil))
                /\ calls' = {}
           ELSE \E ok \in BOOLEAN :
                  /\ calls' = {Call("DeleteExternalBreakpoint", Nil, ok)}
                  /\ Finish(h, Resp("deleteBreakpoint",
                                    IF ok THEN StatusOK
                                          ELSE StatusInternalServerError,
                                    "", Nil))
    /\ UNCHANGED <<slot, dmu, nsess, sess, smu, lpc, lres>>
    /\ bpreq' = NoBpReq /\ UNCHANGED aux

\* ------------------------------------------------------------ routing
\* handleSession, handleBreakpoint, handleBreakpoints, handleStep,
\* handleStack: a method the handler rejects (daemon.go:292-293, 460-461,
\* 466-469, 605-608, 672-675)
MethodNotAllowed(h) ==
    /\ Receive(h)
    /\ \E op \in {"handleSession", "handleBreakpoint", "handleBreakpoints",
                 "handleStep", "handleStack"} :
         Finish(h, Resp(op, StatusMethodNotAllowed, "", Nil))
    /\ acc' = {}
    /\ calls' = {}
    /\ UNCHANGED <<slot, dmu, nsess, sess, smu, lpc, lres>>
    /\ bpreq' = NoBpReq /\ UNCHANGED aux

HandlerStep(h) ==
    \/ StartLock(h) \/ StartCheck(h) \/ StartResp(h)
    \/ GetSlot(h) \/ GetRead(h)
    \/ StopSlot(h) \/ StopDetach(h) \/ StopSet(h)
    \/ StepSlot(h) \/ StepCheck(h) \/ StepCall(h) \/ StepUpdate(h)
    \/ StackSlot(h) \/ StackCheck(h) \/ StackUpdate(h)
    \/ VarsSlot(h) \/ VarsCheck(h) \/ VarsUpdate(h)
    \/ SetBreakpoint(h) \/ TrackAppend(h)
    \/ ListBreakpoints(h) \/ DeleteBreakpoint(h)
    \/ MethodNotAllowed(h)

ListenerStep(s) ==
    \/ Listen(s) \/ ListenerOutcome(s) \/ ListenerAttach(s) \/ ListenerStack(s)

Next ==
    \/ \E h \in Handlers : HandlerStep(h)
    \/ \E s \in SessionIds : ListenerStep(s)

Spec == Init /\ [][Next]_vars

\* the steps of a handler that has taken its request
HandlerContinues(h) == hpc[h] # "idle" /\ HandlerStep(h)

\* The daemon under the scheduling of the Go runtime: a goroutine that can
\* run is run, a goroutine waiting for a mutex gets it once it stays free,
\* and every call to SAP returns (the long-poll of the listener included).
\* Whether a further request arrives is left open.
Fairness ==
    /\ \A h \in Handlers : WF_vars(HandlerContinues(h))
    /\ \A s \in SessionIds : WF_vars(ListenerStep(s))
FairSpec == Spec /\ Fairness


\* ===================================================================
\* The timeout of the listener: startSession decodes the request, applies
\* the default and starts runListener, which builds the ListenOptions of the
\* long-poll (daemon.go:315-371).  One POST /session on an empty slot is
\* followed for every "timeout" the body can carry.
\* ===================================================================
SentTimeouts == {NoTimeout} \cup {Timeout(v) : v \in -MaxTimeout..MaxTimeout}

\* the variables the timeout model leaves alone
timeoutRest == <<daemonVars, readerVars, methodVars, packageVars, graphVars,
                 compareVars, extractVars, execVars, writeVars, transportVars,
                 policyVars, msgclassVars>>

TimeoutInit ==
    /\ DaemonInit
    /\ ReaderIdle
    /\ MethodIdle
    /\ PackageIdle
    /\ GraphIdle
    /\ CompareIdle
    /\ ExtractIdle
    /\ ExecIdle
    /\ WriteIdle
    /\ TransportIdle
    /\ PolicyIdle
    /\ MsgclassIdle
    /\ tpc = "received"
    /\ sentTimeout \in SentTimeouts
    /\ reqTimeout = 0
    /\ listenTimeout = 0

\* daemon.go:316-319: json Decode into the zero StartSessionRequest; a field
\* the body does not carry stays 0
DecodeTimeout(sent) == IF sent.present THEN sent.value ELSE 0

\* daemon.go:322-324
TimeoutDefault(t) == IF t = 0 THEN DefaultTimeout ELSE t

DecodeStartRequest ==
    /\ tpc = "received"
    /\ reqTimeout' = DecodeTimeout(sentTimeout)
    /\ tpc' = "decoded"
    /\ UNCHANGED <<sentTimeout, listenTimeout>>
    /\ UNCHANGED timeoutRest

ApplyDefaults ==
    /\ tpc = "decoded"
    /\ reqTimeout' = TimeoutDefault(reqTimeout)
    /\ tpc' = "defaulted"
    /\ UNCHANGED <<sentTimeout, listenTimeout>>
    /\ UNCHANGED timeoutRest

\* daemon.go:347 go d.runListener(session, req.Timeout) and 367-371, the
\* ListenOptions handed to DebuggerListen
StartListener ==
    /\ tpc = "defaulted"
    /\ listenTimeout' = reqTimeout
    /\ tpc' = "listening"
    /\ UNCHANGED <<sentTimeout, reqTimeout>>
    /\ UNCHANGED timeoutRest

TimeoutNext == DecodeStartRequest \/ ApplyDefaults \/ StartListener

TimeoutSpec == TimeoutInit /\ [][TimeoutNext]_vars


\* ===================================================================
\* The read operations of adt.Client (pkg/adt/client.go): one call of one
\* operation, for every object name over a small alphabet, under a safety
\* policy that allows or denies reads.  A name is the sequence of its
\* characters; a path is a sequence of pieces, each a literal part of the
\* format string or one character of the name as it appears in the path
\* (a percent-escape is one piece).
\* ===================================================================
\* a lower-case letter, an upper-case letter, the namespace separator and a
\* character that needs neither upper-casing nor escaping
NameChars == {"a", "Z", "/", "_"}
RECURSIVE SeqsUpTo(_, _)
SeqsUpTo(S, n) ==
    IF n = 0 THEN {<<>>}
    ELSE LET shorter == SeqsUpTo(S, n - 1)
         IN shorter \cup {Append(q, c) : q \in shorter, c \in S}
Names == SeqsUpTo(NameChars, MaxNameLen)

\* strings.ToUpper, strings.ToLower
UpperChar(c) == IF c = "a" THEN "A" ELSE c
LowerChar(c) == IF c = "Z" THEN "z" ELSE IF c = "A" THEN "a" ELSE c
ToUpper(n) == [i \in 1..Len(n) |-> UpperChar(n[i])]
ToLower(n) == [i \in 1..Len(n) |-> LowerChar(n[i])]

\* url.PathEscape: letters and '_' stay, '/' becomes %2F
EscapeChar(c) == IF c = "/" THEN "%2F" ELSE c
PathEscape(n) == [i \in 1..Len(n) |-> EscapeChar(n[i])]

\* fmt.Sprintf of a format with one %s
Sprintf1(before, a, after) == <<before>> \o a \o <<after>>

\* the operations the claims name, by the name argument they take
NamedReads == {"GetProgram", "GetClass", "GetClassMethods", "GetInterface",
               "GetFunctionGroup", "GetInclude", "GetDDLS", "GetBDEF",
               "GetSRVD", "GetSRVB", "GetTable", "GetView", "GetStructure"}
OtherReads == {"SearchObject", "GetMessageClass", "GetPackage"}
ReaderCalls ==
    {[op |-> o, name |-> n, group |-> <<>>] : o \in NamedReads \cup OtherReads,
                                              n \in Names} \cup
    {[op |-> "GetFunction", name |-> n, group |-> g] : n \in Names, g \in Names}

\* the request each operation hands to transport.Request: the path and, for
\* the two operations that send the name as a query parameter, that parameter
RequestOf(c) ==
    LET n == ToUpper(c.name)
        g == ToUpper(c.group)
        src == "/source/main"
        P(path) == [path |-> path, query |-> <<>>]
    IN CASE c.op = "SearchObject" ->
              [path |-> <<"/sap/bc/adt/repository/informationsystem/search">>,
               query |-> c.name]
         [] c.op = "GetProgram" ->
              P(Sprintf1("/sap/bc/adt/programs/programs/", PathEscape(n), src))
         [] c.op = "GetClass" ->
              P(Sprintf1("/sap/bc/adt/oo/classes/", PathEscape(n), src))
         [] c.op = "GetClassMethods" ->
              P(Sprintf1("/sap/bc/adt/oo/classes/", PathEscape(n), "/objectstructure"))
         [] c.op = "GetInterface" ->
              P(Sprintf1("/sap/bc/adt/oo/interfaces/", PathEscape(n), src))
         [] c.op = "GetFunctionGroup" ->
              P(Sprintf1("/sap/bc/adt/functions/groups/", PathEscape(n), ""))
         [] c.op = "GetFunction" ->
              P(<<"/sap/bc/adt/functions/groups/">> \o PathEscape(g) \o
                <<"/fmodules/">> \o PathEscape(n) \o <<src>>)
         [] c.op = "GetInclude" ->
              P(Sprintf1("/sap/bc/adt/programs/includes/", PathEscape(n), src))
         [] c.op = "GetDDLS" ->
              P(Sprintf1("/sap/bc/adt/ddic/ddl/sources/", PathEscape(n), src))
         [] c.op = "GetBDEF" ->
              P(Sprintf1("/sap/bc/adt/bo/behaviordefinitions/", PathEscape(n), src))
         [] c.op = "GetSRVD" ->
              P(Sprintf1("/sap/bc/adt/ddic/srvd/sources/", PathEscape(n), src))
         [] c.op = "GetSRVB" ->
              P(Sprintf1("/sap/bc/adt/businessservices/bindings/", PathEscape(n), ""))
         [] c.op = "GetMessageClass" ->
              P(Sprintf1("/sap/bc/adt/messageclass/", PathEscape(ToLower(n)), ""))
         [] c.op = "GetPackage" ->
              [path |-> <<"/sap/bc/adt/repository/nodestructure">>, query |-> n]
         [] c.op = "GetTable" ->
              P(Sprintf1("/sap/bc/adt/ddic/tables/", n, src))
         [] c.op = "GetView" ->
              P(Sprintf1("/sap/bc/adt/ddic/views/", PathEscape(n), src))
         [] c.op = "GetStructure" ->
              P(Sprintf1("/sap/bc/adt/ddic/structures/", n, src))

\* the variables the reader model leaves alone
readerRest == <<daemonVars, timeoutVars, methodVars, packageVars, graphVars,
                compareVars, extractVars, execVars, writeVars, transportVars,
                policyVars, msgclassVars>>

ReaderInit ==
    /\ DaemonInit
    /\ TimeoutIdle
    /\ MethodIdle
    /\ PackageIdle
    /\ GraphIdle
    /\ CompareIdle
    /\ ExtractIdle
    /\ ExecIdle
    /\ WriteIdle
    /\ TransportIdle
    /\ PolicyIdle
    /\ MsgclassIdle
    /\ rpc = "called"
    /\ rcall \in ReaderCalls
    /\ policyAllows \in BOOLEAN
    /\ checks = <<>>
    /\ requests = <<>>

\* the operation from its entry to c.transport.Request; none of the read
\* operations calls c.checkSafety (client.go:58-68, 84-89, ..., 578-583)
ReaderRequest ==
    /\ rpc = "called"
    /\ requests' = Append(requests, RequestOf(rcall))
    /\ checks' = checks
    /\ rpc' = "requested"
    /\ UNCHANGED <<rcall, policyAllows>>
    /\ UNCHANGED readerRest

\* the answer of the transport and the return of the operation
ReaderReturn ==
    /\ rpc = "requested"
    /\ \E ok \in BOOLEAN : rpc' = IF ok THEN "returned" ELSE "failed"
    /\ UNCHANGED <<rcall, policyAllows, checks, requests>>
    /\ UNCHANGED readerRest

ReaderNext == ReaderRequest \/ ReaderReturn

ReaderSpec == ReaderInit /\ [][ReaderNext]_vars


\* ===================================================================
\* GetClassMethodSource (pkg/adt/client.go:156-198): one call, for every
\* object structure with at most one method, every pair of implementation
\* line numbers SAP can report and every source of up to MaxLines lines.
\* Line i of the source is represented by the number i.
\* ===================================================================
LineNumbers == -1..(MaxLines + 1)
MethodInfo(name, start, end) ==
    [isNil |-> FALSE, Name |-> name, ImplementationStart |-> start,
     ImplementationEnd |-> end]
\* what ParseClassObjectStructure(...).GetMethods() returns
Structures ==
    {<<>>} \cup
    {<<MethodInfo(n, st, en)>> : n \in {<<"A">>, <<"Z">>},
                                 st \in LineNumbers, en \in LineNumbers}
\* strings.Split(fullSource, "\n") has at least one element
Sources == {[i \in 1..n |-> i] : n \in 1..MaxLines}

Result(kind, lines) == [kind |-> kind, lines |-> lines]

\* the variables the method-source model leaves alone
methodRest == <<daemonVars, timeoutVars, readerVars, packageVars, graphVars,
                compareVars, extractVars, execVars, writeVars, transportVars,
                policyVars, msgclassVars>>

MethodInit ==
    /\ DaemonInit
    /\ TimeoutIdle
    /\ ReaderIdle
    /\ PackageIdle
    /\ GraphIdle
    /\ CompareIdle
    /\ ExtractIdle
    /\ ExecIdle
    /\ WriteIdle
    /\ TransportIdle
    /\ PolicyIdle
    /\ MsgclassIdle
    /\ mpc = "called"
    /\ mcall \in {<<"a">>, <<"Z">>}
    /\ structure \in Structures
    /\ source \in Sources
    /\ method = NilMethod
    /\ mresult = NoResult

\* client.go:166-173: the first method of the structure with the name
FindMethod(methods, name) ==
    IF \E i \in 1..Len(methods) : methods[i].Name = name
      THEN methods[CHOOSE i \in 1..Len(methods) :
                     /\ methods[i].Name = name
                     /\ \A j \in 1..(i - 1) : methods[j].Name # name]
      ELSE NilMethod

\* Go's rule for lines[lo:hi] on a slice of capacity cap: 0 <= lo <= hi <= cap
\* or a run-time panic
SlicePanics(lo, hi, cap) == ~(0 <= lo /\ lo <= hi /\ hi <= cap)

\* client.go:157-180: upper-casing of the name, GetClassMethods, the search
\* for the method and the test for an implementation
GetMethodBoundaries ==
    /\ mpc = "called"
    /\ \E ok \in BOOLEAN :
         IF ~ok
           THEN /\ mresult' = Result("TransportError", <<>>)
                /\ method' = method
                /\ mpc' = "done"
           ELSE LET m == FindMethod(structure, ToUpper(mcall))
                IN /\ method' = m
                   /\ IF m.isNil
                        THEN /\ mresult' = Result("NotFound", <<>>)
                             /\ mpc' = "done"
                      ELSE IF m.ImplementationStart = 0 \/ m.ImplementationEnd = 0
                        THEN /\ mresult' = Result("NotFound", <<>>)
                             /\ mpc' = "done"
                      ELSE /\ mresult' = mresult
                           /\ mpc' = "bounds"
    /\ UNCHANGED <<mcall, structure, source>>
    /\ UNCHANGED methodRest

\* client.go:183-197: GetClassSource, the split into lines, the test of the
\* end line and the slice expression
ExtractMethodLines ==
    /\ mpc = "bounds"
    /\ \E ok \in BOOLEAN :
         mresult' =
           IF ~ok THEN Result("TransportError", <<>>)
           ELSE IF method.ImplementationEnd > Len(source)
             THEN Result("OutOfRange", <<>>)
           ELSE IF SlicePanics(method.ImplementationStart - 1,
                               method.ImplementationEnd, Len(source))
             THEN Result("panic", <<>>)
           ELSE Result("lines", SubSeq(source, method.ImplementationStart,
                                       method.ImplementationEnd))
    /\ mpc' = "done"
    /\ UNCHANGED <<mcall, structure, source, method>>
    /\ UNCHANGED methodRest

MethodNext == GetMethodBoundaries \/ ExtractMethodLines

MethodSpec == MethodInit /\ [][MethodNext]_vars


\* ===================================================================
\* GetPackage and parsePackageNodeStructure (pkg/adt/client.go:464-540): one
\* call, for every response body: empty, not XML, or a document of up to
\* MaxNodes nodes.  The OBJECT_URI of the i-th node of a document is i, which
\* tells the nodes of a document apart.
\* ===================================================================
NodeTypes == {"DEVC/K", "CLAS/OC"}
NodeNames == {"", "ZOBJ", "ZSUB"}
RECURSIVE NodeSeqs(_)
NodeSeqs(n) ==
    IF n = 0 THEN {<<>>}
    ELSE LET shorter == NodeSeqs(n - 1)
         IN shorter \cup
            {Append(q, [ObjectType |-> t, ObjectName |-> m,
                        ObjectURI |-> Len(q) + 1]) :
               q \in {x \in shorter : Len(x) = n - 1},
               t \in NodeTypes, m \in NodeNames}
Bodies == {EmptyBody, [kind |-> "malformed", nodes |-> <<>>]} \cup
          {[kind |-> "xml", nodes |-> q] : q \in NodeSeqs(MaxNodes)}

PackageObject(node) ==
    [Type |-> node.ObjectType, Name |-> node.ObjectName, URI |-> node.ObjectURI]
\* &PackageContent{Name: packageName, Objects: []PackageObject{},
\*                 SubPackages: []string{}}
NewPackageContent(name) ==
    [isNil |-> FALSE, Name |-> name, Objects |-> <<>>, SubPackages |-> <<>>]

\* the loop body, were it to keep the nodes without a name
AddNodeKeepUnnamed(p, node) ==
    IF node.ObjectType = "DEVC/K"
      THEN [p EXCEPT !.SubPackages = Append(@, node.ObjectName)]
      ELSE [p EXCEPT !.Objects = Append(@, PackageObject(node))]

\* client.go:523-537: the body of the loop over the nodes
AddNode(p, node) ==
    IF node.ObjectName = "" THEN p
    ELSE IF node.ObjectType = "DEVC/K"
      THEN [p EXCEPT !.SubPackages = Append(@, node.ObjectName)]
      ELSE [p EXCEPT !.Objects = Append(@, PackageObject(node))]

\* the variables the package model leaves alone
packageRest == <<daemonVars, timeoutVars, readerVars, methodVars, graphVars,
                 compareVars, extractVars, execVars, writeVars, transportVars,
                 policyVars, msgclassVars>>

PackageInit ==
    /\ DaemonInit
    /\ TimeoutIdle
    /\ ReaderIdle
    /\ MethodIdle
    /\ GraphIdle
    /\ CompareIdle
    /\ ExtractIdle
    /\ ExecIdle
    /\ WriteIdle
    /\ TransportIdle
    /\ PolicyIdle
    /\ MsgclassIdle
    /\ kpc = "called"
    /\ pkgArg \in {<<"a">>, <<"Z", "a">>, <<"/", "a">>}
    /\ packageName = pkgArg
    /\ data \in Bodies
    /\ nodeIdx = 0
    /\ pkg = NilPackage
    /\ kresult = NoPackageResult

\* GetPackage up to the answer of the transport (client.go:464-478)
GetPackage ==
    /\ kpc = "called"
    /\ packageName' = ToUpper(packageName)
    /\ \E ok \in BOOLEAN :
         IF ok THEN /\ kpc' = "parse"
                    /\ kresult' = kresult
               ELSE /\ kpc' = "done"
                    /\ kresult' = [kind |-> "TransportError", pkg |-> NilPackage]
    /\ UNCHANGED <<pkgArg, data, nodeIdx, pkg>>
    /\ UNCHANGED packageRest

\* parsePackageNodeStructure up to the loop (client.go:485-521)
ParseBody ==
    /\ kpc = "parse"
    /\ IF data.kind = "empty"
         THEN /\ kresult' = [kind |-> "ok", pkg |-> NewPackageContent(packageName)]
              /\ kpc' = "done"
              /\ UNCHANGED <<pkg, nodeIdx>>
       ELSE IF data.kind = "malformed"
         THEN /\ kresult' = [kind |-> "ParseError", pkg |-> NilPackage]
              /\ kpc' = "done"
              /\ UNCHANGED <<pkg, nodeIdx>>
       ELSE /\ pkg' = NewPackageContent(packageName)
            /\ nodeIdx' = 1
            /\ kpc' = "loop"
            /\ kresult' = kresult
    /\ UNCHANGED <<pkgArg, packageName, data>>
    /\ UNCHANGED packageRest

\* one iteration of the loop over the nodes (client.go:523-537)
ParseNode ==
    /\ kpc = "loop"
    /\ nodeIdx <= Len(data.nodes)
    /\ pkg' = AddNode(pkg, data.nodes[nodeIdx])
    /\ nodeIdx' = nodeIdx + 1
    /\ UNCHANGED <<kpc, pkgArg, packageName, data, kresult>>
    /\ UNCHANGED packageRest

\* return pkg, nil (client.go:539)
ParseReturn ==
    /\ kpc = "loop"
    /\ nodeIdx > Len(data.nodes)
    /\ kresult' = [kind |-> "ok", pkg |-> pkg]
    /\ kpc' = "done"
    /\ UNCHANGED <<pkgArg, packageName, data, nodeIdx, pkg>>
    /\ UNCHANGED packageRest

PackageNext == GetPackage \/ ParseBody \/ ParseNode \/ ParseReturn

PackageSpec == PackageInit /\ [][PackageNext]_vars


\* ===================================================================
\* FlattenCallGraph and AnalyzeCallGraph (part_000:562-628): one call of one
\* of them, for a nil root and for every ordered tree of up to MaxTreeNodes
\* nodes whose nodes carry one of two URIs and one of two types.  The
\* recursion of the closure traverse is followed activation by activation.
\* Description, Line and Column of a node, which the two functions at most
\* copy, are left out.
\* ===================================================================
NodeURIs == {"/u1", "/u2"}
NameOfURI(u) == IF u = "/u1" THEN "M1" ELSE "M2"
Node(u, t, children) ==
    [isNil |-> FALSE, URI |-> u, Name |-> NameOfURI(u), Type |-> t,
     Children |-> children]

\* the sequences of trees with n nodes in all, and the trees with n nodes
RECURSIVE Forests(_), TreesOfSize(_)
Forests(n) ==
    IF n = 0 THEN {<<>>}
    ELSE UNION {{<<t>> \o f : t \in TreesOfSize(k), f \in Forests(n - k)} :
                  k \in 1..n}
TreesOfSize(n) ==
    {Node(u, t, f) : u \in NodeURIs, t \in NodeKinds, f \in Forests(n - 1)}
Roots == {NilNode} \cup UNION {TreesOfSize(n) : n \in 1..MaxTreeNodes}

\* an activation of traverse: its node, the index of the child the range
\* loop is at, and (AnalyzeCallGraph) its depth
Frame(node, i, depth) == [node |-> node, i |-> i, depth |-> depth]

\* part_000:572-578
Edge(parent, child) ==
    [CallerURI |-> parent.URI, CallerName |-> parent.Name,
     CalleeURI |-> child.URI, CalleeName |-> child.Name]

\* the append of FlattenCallGraph, were it to drop an edge already listed
AppendEdgeOnce(es, parent, child) ==
    IF \E i \in 1..Len(es) : es[i] = Edge(parent, child)
      THEN es ELSE Append(es, Edge(parent, child))

\* part_000:572  edges = append(edges, CallGraphEdge{...})
AppendEdge(es, parent, child) == Append(es, Edge(parent, child))

\* the head of traverse in AnalyzeCallGraph, were it to count every node
CountNodeAlways(st, sn, node) ==
    [st EXCEPT !.TotalNodes = @ + 1,
               !.NodesByType[node.Type] = @ + 1,
               !.UniqueNodes = Append(@, node.Name)]

\* part_000:611-616: the statistics after traverse entered node, sn being
\* the keys of seen
CountNode(st, sn, node) ==
    IF node.URI \in sn THEN st
    ELSE [st EXCEPT !.TotalNodes = @ + 1,
                    !.NodesByType[node.Type] = @ + 1,
                    !.UniqueNodes = Append(@, node.Name)]

\* part_000:607-609
DeeperOf(md, depth) == IF depth > md THEN depth ELSE md

\* the variables the call-graph model leaves alone
graphRest == <<daemonVars, timeoutVars, readerVars, methodVars, packageVars,
               compareVars, extractVars, execVars, writeVars, transportVars,
               policyVars, msgclassVars>>

GraphInit ==
    /\ DaemonInit
    /\ TimeoutIdle
    /\ ReaderIdle
    /\ MethodIdle
    /\ PackageIdle
    /\ CompareIdle
    /\ ExtractIdle
    /\ ExecIdle
    /\ WriteIdle
    /\ TransportIdle
    /\ PolicyIdle
    /\ MsgclassIdle
    /\ gpc = "called"
    /\ gfun \in {"FlattenCallGraph", "AnalyzeCallGraph"}
    /\ root \in Roots
    /\ gstack = <<>>
    /\ edges = <<>>
    /\ stats = NewStats
    /\ seen = {}
    /\ maxDepth = 0

\* FlattenCallGraph up to traverse(root) (part_000:562-584)
FlattenStart ==
    /\ gpc = "called"
    /\ gfun = "FlattenCallGraph"
    /\ IF root.isNil
         THEN /\ gpc' = "done"
              /\ gstack' = gstack
         ELSE /\ gpc' = "traverse"
              /\ gstack' = <<Frame(root, 1, 0)>>
    /\ UNCHANGED <<gfun, root, edges, stats, seen, maxDepth>>
    /\ UNCHANGED graphRest

\* one iteration of the range loop of traverse: the edge to the child and
\* the recursive call (part_000:570-581)
FlattenChild ==
    /\ gpc = "traverse"
    /\ gfun = "FlattenCallGraph"
    /\ LET top == gstack[Len(gstack)]
       IN /\ top.i <= Len(top.node.Children)
          /\ edges' = AppendEdge(edges, top.node, top.node.Children[top.i])
          /\ gstack' = Append([gstack EXCEPT ![Len(gstack)].i = @ + 1],
                              Frame(top.node.Children[top.i], 1, 0))
    /\ UNCHANGED <<gpc, gfun, root, stats, seen, maxDepth>>
    /\ UNCHANGED graphRest

\* the range loop is over: traverse returns, and with the outermost
\* activation so does FlattenCallGraph (part_000:582-585)
FlattenReturn ==
    /\ gpc = "traverse"
    /\ gfun = "FlattenCallGraph"
    /\ gstack[Len(gstack)].i > Len(gstack[Len(gstack)].node.Children)
    /\ gstack' = SubSeq(gstack, 1, Len(gstack) - 1)
    /\ gpc' = IF Len(gstack) = 1 THEN "done" ELSE "traverse"
    /\ UNCHANGED <<gfun, root, edges, stats, seen, maxDepth>>
    /\ UNCHANGED graphRest

\* AnalyzeCallGraph up to the head of traverse(root, 0) (part_000:596-616)
AnalyzeStart ==
    /\ gpc = "called"
    /\ gfun = "AnalyzeCallGraph"
    /\ IF root.isNil
         THEN /\ gpc' = "done"
              /\ UNCHANGED <<gstack, stats, seen, maxDepth>>
         ELSE /\ gpc' = "traverse"
              /\ maxDepth' = DeeperOf(maxDepth, 0)
              /\ stats' = CountNode(stats, seen, root)
              /\ seen' = seen \cup {root.URI}
              /\ gstack' = <<Frame(root, 1, 0)>>
    /\ UNCHANGED <<gfun, root, edges>>
    /\ UNCHANGED graphRest

\* the iteration of the range loop, were it to count an edge only when the
\* URI of the child has not been seen
AnalyzeChildUnseenOnly ==
    /\ gpc = "traverse"
    /\ gfun = "AnalyzeCallGraph"
    /\ LET top == gstack[Len(gstack)]
           child == top.node.Children[top.i]
           counted == IF child.URI \in seen THEN stats
                      ELSE [stats EXCEPT !.TotalEdges = @ + 1]
       IN /\ top.i <= Len(top.node.Children)
          /\ maxDepth' = DeeperOf(maxDepth, top.depth + 1)
          /\ stats' = CountNode(counted, seen, child)
          /\ seen' = seen \cup {child.URI}
          /\ gstack' = Append([gstack EXCEPT ![Len(gstack)].i = @ + 1],
                              Frame(child, 1, top.depth + 1))
    /\ UNCHANGED <<gpc, gfun, root, edges>>
    /\ UNCHANGED graphRest

\* one iteration of the range loop of traverse: the edge count, the
\* recursive call and its head (part_000:607-622)
AnalyzeChild ==
    /\ gpc = "traverse"
    /\ gfun = "AnalyzeCallGraph"
    /\ LET top == gstack[Len(gstack)]
           child == top.node.Children[top.i]
       IN /\ top.i <= Len(top.node.Children)
          /\ maxDepth' = DeeperOf(maxDepth, top.depth + 1)
          /\ stats' = CountNode([stats EXCEPT !.TotalEdges = @ + 1], seen, child)
          /\ seen' = seen \cup {child.URI}
          /\ gstack' = Append([gstack EXCEPT ![Len(gstack)].i = @ + 1],
                              Frame(child, 1, top.depth + 1))
    /\ UNCHANGED <<gpc, gfun, root, edges>>
    /\ UNCHANGED graphRest

\* traverse returns, and with the outermost activation AnalyzeCallGraph
\* stores maxDepth and returns (part_000:623-627)
AnalyzeReturn ==
    /\ gpc = "traverse"
    /\ gfun = "AnalyzeCallGraph"
    /\ gstack[Len(gstack)].i > Len(gstack[Len(gstack)].node.Children)
    /\ gstack' = SubSeq(gstack, 1, Len(gstack) - 1)
    /\ IF Len(gstack) = 1
         THEN /\ gpc' = "done"
              /\ stats' = [stats EXCEPT !.MaxDepth = maxDepth]
         ELSE /\ gpc' = "traverse"
              /\ stats' = stats
    /\ UNCHANGED <<gfun, root, edges, seen, maxDepth>>
    /\ UNCHANGED graphRest

GraphNext ==
    \/ FlattenStart \/ FlattenChild \/ FlattenReturn
    \/ AnalyzeStart \/ AnalyzeChild \/ AnalyzeReturn

GraphSpec == GraphInit /\ [][GraphNext]_vars


\* ===================================================================
\* CompareCallGraphs (part_000:638-677): one call, for every pair of edge
\* lists of up to MaxEdges edges.  A name is a sequence of pieces, the text
\* "->" being a piece of its own, so that the key the code builds by
\* concatenation is built the same way here.  The order in which Go ranges
\* over a map is not specified: every order is followed.  CallerURI,
\* CalleeURI and Line of an edge, which the function only copies, are left
\* out.
\* ===================================================================
CallNames == {<<"A">>, <<"A", "->", "A">>}
CallEdge(caller, callee) == [CallerName |-> caller, CalleeName |-> callee]
CallEdges == {CallEdge(a, b) : a \in CallNames, b \in CallNames}
EdgeLists == SeqsUpTo(CallEdges, MaxEdges)

\* part_000:645  key := e.CallerName + "->" + e.CalleeName
KeyOf(e) == e.CallerName \o <<"->">> \o e.CalleeName

\* m[k] = v on a Go map
Put(m, k, v) == [x \in (DOMAIN m) \cup {k} |-> IF x = k THEN v ELSE m[x]]

\* part_000:643-647 and 649-653: the map built from an edge list
RECURSIVE BuildSetFrom(_, _)
BuildSetFrom(m, es) ==
    IF es = <<>> THEN m
    ELSE BuildSetFrom(Put(m, KeyOf(Head(es)), Head(es)), Tail(es))
BuildSet(es) == BuildSetFrom(EmptyMap, es)

\* part_000:672-674
CoverageRatioOf(c, es) ==
    IF Len(es) > 0 THEN Ratio(Len(c.CommonEdges), Len(es))
    ELSE c.CoverageRatio

\* the variables the comparison model leaves alone
compareRest == <<daemonVars, timeoutVars, readerVars, methodVars, packageVars,
                 graphVars, extractVars, execVars, writeVars, transportVars,
                 policyVars, msgclassVars>>

CompareInit ==
    /\ DaemonInit
    /\ TimeoutIdle
    /\ ReaderIdle
    /\ MethodIdle
    /\ PackageIdle
    /\ GraphIdle
    /\ ExtractIdle
    /\ ExecIdle
    /\ WriteIdle
    /\ TransportIdle
    /\ PolicyIdle
    /\ MsgclassIdle
    /\ cpc = "called"
    /\ staticEdges \in EdgeLists
    /\ actualEdges \in EdgeLists
    /\ staticSet = EmptyMap
    /\ actualSet = EmptyMap
    /\ ranged = {}
    /\ comp = NewComparison

\* part_000:640-653: comp and the two lookup maps
BuildSets ==
    /\ cpc = "called"
    /\ staticSet' = BuildSet(staticEdges)
    /\ actualSet' = BuildSet(actualEdges)
    /\ cpc' = "range_static"
    /\ UNCHANGED <<staticEdges, actualEdges, ranged, comp>>
    /\ UNCHANGED compareRest

\* the iteration of the range over staticSet, were it to list an edge found
\* in actualSet as static-only too
RangeStaticKeepAll ==
    /\ cpc = "range_static"
    /\ \E key \in (DOMAIN staticSet) \ ranged :
         /\ ranged' = ranged \cup {key}
         /\ comp' = [comp EXCEPT !.CommonEdges = IF key \in DOMAIN actualSet
                                                  THEN Append(@, staticSet[key]) ELSE @,
                                 !.StaticOnly = Append(@, staticSet[key])]
    /\ UNCHANGED <<cpc, staticEdges, actualEdges, staticSet, actualSet>>
    /\ UNCHANGED compareRest

\* part_000:656-662: one iteration of the range over staticSet
RangeStatic ==
    /\ cpc = "range_static"
    /\ \E key \in (DOMAIN staticSet) \ ranged :
         /\ ranged' = ranged \cup {key}
         /\ comp' = IF key \in DOMAIN actualSet
                      THEN [comp EXCEPT !.CommonEdges = Append(@, staticSet[key])]
                      ELSE [comp EXCEPT !.StaticOnly = Append(@, staticSet[key])]
    /\ UNCHANGED <<cpc, staticEdges, actualEdges, staticSet, actualSet>>
    /\ UNCHANGED compareRest

\* the range over staticSet is over
RangeStaticEnd ==
    /\ cpc = "range_static"
    /\ ranged = DOMAIN staticSet
    /\ ranged' = {}
    /\ cpc' = "range_actual"
    /\ UNCHANGED <<staticEdges, actualEdges, staticSet, actualSet, comp>>
    /\ UNCHANGED compareRest

\* part_000:665-669: one iteration of the range over actualSet
RangeActual ==
    /\ cpc = "range_actual"
    /\ \E key \in (DOMAIN actualSet) \ ranged :
         /\ ranged' = ranged \cup {key}
         /\ comp' = IF key \notin DOMAIN staticSet
                      THEN [comp EXCEPT !.ActualOnly = Append(@, actualSet[key])]
                      ELSE comp
    /\ UNCHANGED <<cpc, staticEdges, actualEdges, staticSet, actualSet>>
    /\ UNCHANGED compareRest

\* part_000:671-676: the range over actualSet is over, the ratio, return
CompareReturn ==
    /\ cpc = "range_actual"
    /\ ranged = DOMAIN actualSet
    /\ comp' = [comp EXCEPT !.CoverageRatio = CoverageRatioOf(comp, staticEdges)]
    /\ cpc' = "done"
    /\ UNCHANGED <<staticEdges, actualEdges, staticSet, actualSet, ranged>>
    /\ UNCHANGED compareRest

CompareNext ==
    \/ BuildSets \/ RangeStatic \/ RangeStaticEnd \/ RangeActual
    \/ CompareReturn

CompareSpec == CompareInit /\ [][CompareNext]_vars


\* ===================================================================
\* ExtractCallEdgesFromTrace (part_000:679-711): one call, for every trace
\* of up to MaxEntries entries whose Program is empty or one of three program
\* names.  A program name is the sequence of its characters and holds no
\* "->"; the key of the map seen is built by concatenation as the code
\* builds it.  Line of an entry, which the function only copies, is left
\* out.
\* ===================================================================
TracePrograms == {<<>>, <<"Z">>, <<"Z", "a">>, <<"a">>}
TraceEntry(program) == [Program |-> program]
Traces == SeqsUpTo({TraceEntry(p) : p \in TracePrograms}, MaxEntries)

\* part_000:699, 701
ProgramURI(program) == <<"/sap/bc/adt/programs/programs/">> \o ToLower(program)

\* part_000:698-704
TraceEdge(prev, cur) ==
    [CallerURI |-> ProgramURI(prev), CallerName |-> prev,
     CalleeURI |-> ProgramURI(cur), CalleeName |-> cur]

\* part_000:695  edgeKey := prevProgram + "->" + entry.Program
EdgeKey(prev, cur) == prev \o <<"->">> \o cur

\* the variables the trace model leaves alone
extractRest == <<daemonVars, timeoutVars, readerVars, methodVars, packageVars,
                 graphVars, compareVars, execVars, writeVars, transportVars,
                 policyVars, msgclassVars>>

ExtractInit ==
    /\ DaemonInit
    /\ TimeoutIdle
    /\ ReaderIdle
    /\ MethodIdle
    /\ PackageIdle
    /\ GraphIdle
    /\ CompareIdle
    /\ ExecIdle
    /\ WriteIdle
    /\ TransportIdle
    /\ PolicyIdle
    /\ MsgclassIdle
    /\ xpc = "called"
    /\ entries \in Traces
    /\ entryIdx = 0
    /\ prevProgram = <<>>
    /\ xseen = {}
    /\ xedges = <<>>

\* part_000:682-686: edges, seen and prevProgram; the range loop starts
ExtractStart ==
    /\ xpc = "called"
    /\ xpc' = "range"
    /\ entryIdx' = 1
    /\ UNCHANGED <<entries, prevProgram, xseen, xedges>>
    /\ UNCHANGED extractRest

\* part_000:688-690: an entry without Program is passed over
ExtractSkip ==
    /\ xpc = "range"
    /\ entryIdx <= Len(entries)
    /\ entries[entryIdx].Program = <<>>
    /\ entryIdx' = entryIdx + 1
    /\ UNCHANGED <<xpc, entries, prevProgram, xseen, xedges>>
    /\ UNCHANGED extractRest

\* the iteration for an entry with a Program, were every change of program
\* to give an edge
ExtractEntryEveryChange ==
    /\ xpc = "range"
    /\ entryIdx <= Len(entries)
    /\ entries[entryIdx].Program # <<>>
    /\ LET cur == entries[entryIdx].Program
       IN /\ IF prevProgram # <<>> /\ prevProgram # cur
               THEN /\ xseen' = xseen \cup {EdgeKey(prevProgram, cur)}
                    /\ xedges' = Append(xedges, TraceEdge(prevProgram, cur))
               ELSE UNCHANGED <<xseen, xedges>>
          /\ prevProgram' = cur
    /\ entryIdx' = entryIdx + 1
    /\ UNCHANGED <<xpc, entries>>
    /\ UNCHANGED extractRest

\* part_000:694-707: one iteration for an entry with a Program
ExtractEntry ==
    /\ xpc = "range"
    /\ entryIdx <= Len(entries)
    /\ entries[entryIdx].Program # <<>>
    /\ LET cur == entries[entryIdx].Program
           edgeKey == EdgeKey(prevProgram, cur)
       IN /\ IF prevProgram # <<>> /\ prevProgram # cur /\ edgeKey \notin xseen
               THEN /\ xseen' = xseen \cup {edgeKey}
                    /\ xedges' = Append(xedges, TraceEdge(prevProgram, cur))
               ELSE UNCHANGED <<xseen, xedges>>
          /\ prevProgram' = cur
    /\ entryIdx' = entryIdx + 1
    /\ UNCHANGED <<xpc, entries>>
    /\ UNCHANGED extractRest

\* part_000:708-710: the range loop is over, return edges
ExtractReturn ==
    /\ xpc = "range"
    /\ entryIdx > Len(entries)
    /\ xpc' = "done"
    /\ UNCHANGED <<entries, entryIdx, prevProgram, xseen, xedges>>
    /\ UNCHANGED extractRest

ExtractNext ==
    \/ ExtractStart \/ ExtractSkip \/ ExtractEntry \/ ExtractReturn

ExtractSpec == ExtractInit /\ [][ExtractNext]_vars


\* ===================================================================
\* Client.TraceExecution (part_000:753-822): one call, for every choice of
\* options and every outcome of the four Client methods it calls, which
\* are the environment.  A pointer or slice of the result is "nil" or names
\* what it was set from; the flattening, analysis, extraction and comparison
\* the call runs on the way are followed in GraphSpec, ExtractSpec and
\* CompareSpec.
\* ===================================================================
ConfigUsername == "DEVELOPER"
ExecOpts ==
    [ObjectURI : {"", "/sap/bc/adt/oo/classes/zcl"}, MaxDepth : {0, 2},
     RunTests : BOOLEAN, TestObjectURI : {"", "/sap/bc/adt/oo/classes/zcl"},
     TraceUser : {"", "TESTER"}]

\* (result, err) of GetCalleesOf, RunUnitTests, ListTraces and GetTrace
CalleesOutcomes == {"graph", "err"}
UnitTestOutcomes == {"err", "nil", "no tests", "tests"}
ListOutcomes == {"err", "none", "traces"}
GetTraceOutcomes == {"analysis", "err"}

ExecCall(fn, arg, outcome) == [fn |-> fn, arg |-> arg, outcome |-> outcome]

\* part_000:760-763
DepthOf(o) == IF o.MaxDepth <= 0 THEN 5 ELSE o.MaxDepth

\* part_000:778-786: result.ExecutedTests after RunUnitTests
ExecutedTestsOf(outcome) == IF outcome = "tests" THEN "names" ELSE "nil"

\* part_000:790-794
TraceUserOf(o) == IF o.TraceUser = "" THEN ConfigUsername ELSE o.TraceUser

\* the variables the execution model leaves alone
execRest == <<daemonVars, timeoutVars, readerVars, methodVars, packageVars,
              graphVars, compareVars, extractVars, writeVars, transportVars,
              policyVars, msgclassVars>>

ExecInit ==
    /\ DaemonInit
    /\ TimeoutIdle
    /\ ReaderIdle
    /\ MethodIdle
    /\ PackageIdle
    /\ GraphIdle
    /\ CompareIdle
    /\ ExtractIdle
    /\ WriteIdle
    /\ TransportIdle
    /\ PolicyIdle
    /\ MsgclassIdle
    /\ epc = "static"
    /\ opts \in ExecOpts
    /\ result = NewExecResult
    /\ ecalls = <<>>
    /\ eret = NoExecReturn

\* step 1, were a failure of GetCalleesOf to end the call with the error
BuildStaticGraphOrFail ==
    /\ epc = "static"
    /\ IF opts.ObjectURI # ""
         THEN \E outcome \in CalleesOutcomes :
                /\ ecalls' = Append(ecalls, ExecCall("GetCalleesOf",
                                                     DepthOf(opts), outcome))
                /\ IF outcome = "err"
                     THEN /\ result' = result
                          /\ epc' = "done"
                          /\ eret' = [returned |-> TRUE, result |-> NewExecResult,
                                      err |-> "err"]
                     ELSE /\ result' = [result EXCEPT
                                          !.StaticGraph = "graph",
                                          !.StaticStats = "AnalyzeCallGraph"]
                          /\ epc' = "tests"
                          /\ eret' = eret
         ELSE /\ epc' = "tests"
              /\ UNCHANGED <<result, ecalls, eret>>
    /\ UNCHANGED opts
    /\ UNCHANGED execRest

\* part_000:758-773: step 1, the static call graph
BuildStaticGraph ==
    /\ epc = "static"
    /\ IF opts.ObjectURI # ""
         THEN \E outcome \in CalleesOutcomes :
                /\ ecalls' = Append(ecalls, ExecCall("GetCalleesOf",
                                                     DepthOf(opts), outcome))
                /\ result' = IF outcome = "err"
                               THEN [result EXCEPT !.StaticGraph = "nil"]
                               ELSE [result EXCEPT
                                       !.StaticGraph = "graph",
                                       !.StaticStats = "AnalyzeCallGraph"]
         ELSE UNCHANGED <<result, ecalls>>
    /\ epc' = "tests"
    /\ UNCHANGED <<opts, eret>>
    /\ UNCHANGED execRest

\* part_000:775-787: step 2, the unit tests
RunTests ==
    /\ epc = "tests"
    /\ IF opts.RunTests /\ opts.TestObjectURI # ""
         THEN \E outcome \in UnitTestOutcomes :
                /\ ecalls' = Append(ecalls, ExecCall("RunUnitTests",
                                                     opts.TestObjectURI, outcome))
                /\ result' = [result EXCEPT
                                !.ExecutedTests = ExecutedTestsOf(outcome)]
         ELSE UNCHANGED <<result, ecalls>>
    /\ epc' = "list"
    /\ UNCHANGED <<opts, eret>>
    /\ UNCHANGED execRest

\* part_000:789-800: step 3, the traces of the user
ListLatestTraces ==
    /\ epc = "list"
    /\ \E outcome \in ListOutcomes :
         /\ ecalls' = Append(ecalls, ExecCall("ListTraces", TraceUserOf(opts),
                                              outcome))
         /\ epc' = IF outcome = "traces" THEN "download" ELSE "return"
    /\ UNCHANGED <<opts, result, eret>>
    /\ UNCHANGED execRest

\* part_000:801-818: the hitlist of traces[0], steps 4 and 5
DownloadTrace ==
    /\ epc = "download"
    /\ \E outcome \in GetTraceOutcomes :
         /\ ecalls' = Append(ecalls, ExecCall("GetTrace", "hitlist", outcome))
         /\ result' =
              IF outcome = "err" THEN result
              ELSE [result EXCEPT
                      !.Trace = "analysis",
                      !.ExecutionTime = 1,
                      !.ActualEdges = "ExtractCallEdgesFromTrace",
                      !.Comparison = IF result.StaticGraph # "nil"
                                       THEN "CompareCallGraphs" ELSE @]
    /\ epc' = "return"
    /\ UNCHANGED <<opts, eret>>
    /\ UNCHANGED execRest

\* part_000:821  return result, nil
ExecReturn ==
    /\ epc = "return"
    /\ eret' = [returned |-> TRUE, result |-> result, err |-> "nil"]
    /\ epc' = "done"
    /\ UNCHANGED <<opts, result, ecalls>>
    /\ UNCHANGED execRest

ExecNext ==
    \/ BuildStaticGraph \/ RunTests \/ ListLatestTraces \/ DownloadTrace
    \/ ExecReturn

ExecSpec == ExecInit /\ [][ExecNext]_vars


\* ===================================================================
\* WriteObject of the LifecycleEngine (spec section 4.6 and the ordering and
\* cancellation rules of section 5): one call on one object, for every
\* ordered choice of up to MaxIncludes includes, every choice of options and
\* every outcome of the calls to SAP, each of which succeeds, fails or is
\* cut short by cancellation.  SAP's side is the lock the caller holds on
\* the object and the list of includes written.
\* ===================================================================
IncludeTags == {"main", "definitions", "implementations", "testclasses"}
RECURSIVE DistinctSeqs(_, _)
DistinctSeqs(S, n) ==
    IF n = 0 THEN {<<>>}
    ELSE LET shorter == DistinctSeqs(S, n - 1)
         IN shorter \cup
              UNION {{Append(q, c) : c \in S \ {q[i] : i \in 1..Len(q)}} :
                       q \in shorter}
WriteRequests ==
    [exists : BOOLEAN, sources : DistinctSeqs(IncludeTags, MaxIncludes),
     CreateIfMissing : BOOLEAN, Activate : BOOLEAN]
CallOutcomes == {"ok", "failed", "cancelled"}
LockHandle == "H1"

WriteCall(fn, include, outcome) ==
    [fn |-> fn, include |-> include, outcome |-> outcome]

\* what WriteObject reports for a call to SAP that did not succeed
FailureOf(outcome, include, partial) ==
    IF outcome = "cancelled" THEN WriteResult("Cancelled", include, NoHandle, partial)
    ELSE WriteResult("Error", include, NoHandle, partial)

\* the report after Unlock, were a failed Unlock to leave the report as it
\* was
AfterUnlockSilent(pending, outcome, handle) == pending

\* the report after Unlock was attempted: the pending one, or StuckLock
\* naming the handle if Unlock did not succeed
AfterUnlock(pending, outcome, handle) ==
    IF outcome = "ok" THEN pending
    ELSE WriteResult("StuckLock", pending.include, handle, pending.PartialSuccess)

\* the variables the lifecycle model leaves alone
writeRest == <<daemonVars, timeoutVars, readerVars, methodVars, packageVars,
               graphVars, compareVars, extractVars, execVars, transportVars,
               policyVars, msgclassVars>>

WriteInit ==
    /\ DaemonInit
    /\ TimeoutIdle
    /\ ReaderIdle
    /\ MethodIdle
    /\ PackageIdle
    /\ GraphIdle
    /\ CompareIdle
    /\ ExtractIdle
    /\ ExecIdle
    /\ TransportIdle
    /\ PolicyIdle
    /\ MsgclassIdle
    /\ wpc = "start"
    /\ wreq \in WriteRequests
    /\ wlock = NoHandle
    /\ whandle = NoHandle
    /\ widx = 0
    /\ wupdated = <<>>
    /\ wcalls = <<>>
    /\ wpending = NoWriteResult
    /\ wresult = NoWriteResult

\* Start: CreateObject if the object is missing and CreateIfMissing is set;
\* a failure aborts with no lock held
CreateObject ==
    /\ wpc = "start"
    /\ IF ~wreq.exists /\ wreq.CreateIfMissing
         THEN \E outcome \in CallOutcomes :
                /\ wcalls' = Append(wcalls, WriteCall("CreateObject", "", outcome))
                /\ IF outcome = "ok"
                     THEN /\ wpc' = "lock"
                          /\ wreq' = [wreq EXCEPT !.exists = TRUE]
                          /\ wresult' = wresult
                     ELSE /\ wpc' = "done"
                          /\ wreq' = wreq
                          /\ wresult' = FailureOf(outcome, "", <<>>)
         ELSE /\ wpc' = "lock"
              /\ UNCHANGED <<wreq, wcalls, wresult>>
    /\ UNCHANGED <<wlock, whandle, widx, wupdated, wpending>>
    /\ UNCHANGED writeRest

\* Lock(obj): a failure returns the error, nothing to compensate; an object
\* that does not exist cannot be locked
Lock ==
    /\ wpc = "lock"
    /\ \E outcome \in (IF wreq.exists THEN CallOutcomes
                       ELSE CallOutcomes \ {"ok"}) :
         /\ wcalls' = Append(wcalls, WriteCall("Lock", "", outcome))
         /\ IF outcome = "ok"
              THEN /\ wlock' = LockHandle
                   /\ whandle' = LockHandle
                   /\ widx' = 1
                   /\ wpc' = "update"
                   /\ wresult' = wresult
              ELSE /\ wpc' = "done"
                   /\ wresult' = FailureOf(outcome, "", <<>>)
                   /\ UNCHANGED <<wlock, whandle, widx>>
    /\ UNCHANGED <<wreq, wupdated, wpending>>
    /\ UNCHANGED writeRest

\* the update of an include, were a failure not to halt the loop
UpdateSourceKeepGoing ==
    /\ wpc = "update"
    /\ widx <= Len(wreq.sources)
    /\ \E outcome \in CallOutcomes :
         /\ wcalls' = Append(wcalls, WriteCall("UpdateSource",
                                               wreq.sources[widx], outcome))
         /\ widx' = widx + 1
         /\ IF outcome = "ok"
              THEN /\ wupdated' = Append(wupdated, wreq.sources[widx])
                   /\ wpending' = wpending
              ELSE /\ wupdated' = wupdated
                   /\ wpending' = FailureOf(outcome, wreq.sources[widx], wupdated)
    /\ UNCHANGED <<wpc, wreq, wlock, whandle, wresult>>
    /\ UNCHANGED writeRest

\* foreach include in sources, in the caller's order: UpdateSource(obj,
\* include, text, lockHandle); a failure halts the loop, Unlock comes next
\* and the report names the include and lists the includes written before
UpdateSource ==
    /\ wpc = "update"
    /\ widx <= Len(wreq.sources)
    /\ \E outcome \in CallOutcomes :
         /\ wcalls' = Append(wcalls, WriteCall("UpdateSource",
                                               wreq.sources[widx], outcome))
         /\ IF outcome = "ok"
              THEN /\ wupdated' = Append(wupdated, wreq.sources[widx])
                   /\ widx' = widx + 1
                   /\ UNCHANGED <<wpc, wpending>>
              ELSE /\ wpc' = "unlock"
                   /\ wpending' = FailureOf(outcome, wreq.sources[widx], wupdated)
                   /\ UNCHANGED <<widx, wupdated>>
    /\ UNCHANGED <<wreq, wlock, whandle, wresult>>
    /\ UNCHANGED writeRest

\* all includes are written: the optional Activate(obj); Unlock is attempted
\* whatever it answers
Activate ==
    /\ wpc = "update"
    /\ widx > Len(wreq.sources)
    /\ IF wreq.Activate
         THEN \E outcome \in CallOutcomes :
                /\ wcalls' = Append(wcalls, WriteCall("Activate", "", outcome))
                /\ wpending' = IF outcome = "ok"
                                 THEN IF wpending.status = "none"
                                        THEN WriteResult("Success", "", NoHandle, <<>>)
                                        ELSE wpending
                                 ELSE FailureOf(outcome, "", <<>>)
         ELSE /\ wcalls' = wcalls
              /\ wpending' = IF wpending.status = "none"
                               THEN WriteResult("Success", "", NoHandle, <<>>)
                               ELSE wpending
    /\ wpc' = "unlock"
    /\ UNCHANGED <<wreq, wlock, whandle, widx, wupdated, wresult>>
    /\ UNCHANGED writeRest

\* Unlock(obj, lockHandle), under a context of its own; if it does not
\* succeed the call reports StuckLock
Unlock ==
    /\ wpc = "unlock"
    /\ \E outcome \in {"ok", "failed"} :
         /\ wcalls' = Append(wcalls, WriteCall("Unlock", "", outcome))
         /\ wlock' = IF outcome = "ok" THEN NoHandle ELSE wlock
         /\ wresult' = AfterUnlock(wpending, outcome, whandle)
    /\ wpc' = "done"
    /\ UNCHANGED <<wreq, whandle, widx, wupdated, wpending>>
    /\ UNCHANGED writeRest

WriteNext ==
    \/ CreateObject \/ Lock \/ UpdateSource \/ Activate \/ Unlock

WriteSpec == WriteInit /\ [][WriteNext]_vars


\* ===================================================================
\* Transport.Request and its CSRF lifecycle (spec section 4.2): one call,
\* for every method, with or without a cached token, and every answer of
\* SAP to each exchange.  A token is the number of its issue.
\* ===================================================================
HttpMethods == {"GET", "POST", "PUT", "DELETE"}
SafeMethods == {"GET"}
RequestPaths == {"/sap/bc/adt/programs/programs/ZP/source/main",
                 "/sap/bc/adt/cai/callgraph"}
TransportRequests == [Method : HttpMethods, path : RequestPaths]

\* the answers of SAP: 2xx, 403 with X-CSRF-Token: Required, 403 without it,
\* 404 and 500
StatusForbidden == 403
Responses ==
    {Response(StatusOK, FALSE), Response(StatusForbidden, TRUE),
     Response(StatusForbidden, FALSE), Response(StatusNotFound, FALSE),
     Response(StatusInternalServerError, FALSE)}
FetchFailed == Response(StatusInternalServerError, FALSE)

Exchange(kind, req, sent, answer) ==
    [kind |-> kind, Method |-> req.Method, path |-> req.path, sent |-> sent,
     answer |-> answer]

\* the discovery GET with X-CSRF-Token: Fetch
DiscoveryPath == "/sap/bc/adt/discovery"
FetchExchange(cached, answer) ==
    Exchange("fetch", [Method |-> "GET", path |-> DiscoveryPath], cached, answer)

\* whether a response makes Transport purge, refetch and send again, were
\* it to do so on every 403 with X-CSRF-Token: Required
CsrfExpiredAlways(req, answer, again) ==
    /\ req.Method \notin SafeMethods
    /\ answer.Status = StatusForbidden
    /\ answer.csrfRequired

\* whether a response makes Transport purge, refetch and send again: a 403
\* with X-CSRF-Token: Required to a non-safe request not yet sent again
CsrfExpired(req, answer, again) ==
    /\ req.Method \notin SafeMethods
    /\ answer.Status = StatusForbidden
    /\ answer.csrfRequired
    /\ ~again

\* the variables the transport model leaves alone
transportRest == <<daemonVars, timeoutVars, readerVars, methodVars,
                   packageVars, graphVars, compareVars, extractVars, execVars,
                   writeVars, policyVars, msgclassVars>>

TransportInit ==
    /\ DaemonInit
    /\ TimeoutIdle
    /\ ReaderIdle
    /\ MethodIdle
    /\ PackageIdle
    /\ GraphIdle
    /\ CompareIdle
    /\ ExtractIdle
    /\ ExecIdle
    /\ WriteIdle
    /\ PolicyIdle
    /\ MsgclassIdle
    /\ qpc = "start"
    /\ qreq \in TransportRequests
    /\ token \in {NoToken, 1}
    /\ issued = token
    /\ retried = FALSE
    /\ qlast = NoResponse
    /\ qlog = <<>>
    /\ qresult = NoResponse

\* any non-safe method requires a token: if none is cached, fetch one
EnsureToken ==
    /\ qpc = "start"
    /\ IF qreq.Method \notin SafeMethods /\ token = NoToken
         THEN \E ok \in BOOLEAN :
                IF ok
                  THEN /\ issued' = issued + 1
                       /\ token' = issued + 1
                       /\ qlog' = Append(qlog, FetchExchange(token,
                                                 Response(StatusOK, FALSE)))
                       /\ qpc' = "send"
                       /\ qresult' = qresult
                  ELSE /\ qlog' = Append(qlog, FetchExchange(token, FetchFailed))
                       /\ qpc' = "done"
                       /\ qresult' = FetchFailed
                       /\ UNCHANGED <<token, issued>>
         ELSE /\ qpc' = "send"
              /\ UNCHANGED <<token, issued, qlog, qresult>>
    /\ UNCHANGED <<qreq, retried, qlast>>
    /\ UNCHANGED transportRest

\* the request goes out, a non-safe one with X-CSRF-Token: <cached>
Send ==
    /\ qpc = "send"
    /\ \E answer \in Responses :
         /\ qlog' = Append(qlog, Exchange("request", qreq,
                                          IF qreq.Method \in SafeMethods
                                            THEN NoToken ELSE token, answer))
         /\ qlast' = answer
    /\ qpc' = "answered"
    /\ UNCHANGED <<qreq, token, issued, retried, qresult>>
    /\ UNCHANGED transportRest

\* 403 with X-CSRF-Token: Required: purge the cached token; any other
\* response, and a further 403, goes to the caller
Answered ==
    /\ qpc = "answered"
    /\ IF CsrfExpired(qreq, qlast, retried)
         THEN /\ token' = NoToken
              /\ retried' = TRUE
              /\ qpc' = "refetch"
              /\ qresult' = qresult
         ELSE /\ qresult' = qlast
              /\ qpc' = "done"
              /\ UNCHANGED <<token, retried>>
    /\ UNCHANGED <<qreq, issued, qlast, qlog>>
    /\ UNCHANGED transportRest

\* refetch once, then send the original request again
Refetch ==
    /\ qpc = "refetch"
    /\ \E ok \in BOOLEAN :
         IF ok
           THEN /\ issued' = issued + 1
                /\ token' = issued + 1
                /\ qlog' = Append(qlog, FetchExchange(token,
                                          Response(StatusOK, FALSE)))
                /\ qpc' = "send"
                /\ qresult' = qresult
           ELSE /\ qlog' = Append(qlog, FetchExchange(token, FetchFailed))
                /\ qpc' = "done"
                /\ qresult' = FetchFailed
                /\ UNCHANGED <<token, issued>>
    /\ UNCHANGED <<qreq, retried, qlast>>
    /\ UNCHANGED transportRest

TransportNext == EnsureToken \/ Send \/ Answered \/ Refetch

TransportSpec == TransportInit /\ [][TransportNext]_vars


\* ===================================================================
\* Client.checkSafety (client.go:39-42), which hands the operation to
\* SafetyConfig.CheckOperation, and the rules of the SafetyPolicy (spec
\* section 4.1), evaluated in order, first match wins: one call, for every
\* mode, operation class, name and pair of package lists over a small set of
\* names.  A name is the sequence of its characters; the empty name stands
\* for a check that is about no package.
\* ===================================================================
PolicyModes == {"read-only", "dev-only", "full"}
OperationClasses == {"Read", "Write", "Create", "Delete", "Execute", "Lock",
                     "Debug", "Transport"}
PackageNames == {<<"Z", "P">>, <<"S", "P">>, <<"/", "N", "/", "P">>}
Policies ==
    [mode : PolicyModes, AllowedPackages : SUBSET {<<"Z", "P">>, <<"S", "P">>},
     BlockedPackages : SUBSET {<<"Z", "P">>, <<"/", "N", "/", "P">>}]
Operations == [class : OperationClasses, name : {<<>>} \cup PackageNames]

\* rule 3: a name with customer prefix Z or Y, or namespaced /.../
DevelopmentDomain(name) == name # <<>> /\ name[1] \in {"Z", "Y", "/"}

LastRule == 6
RuleReason(i) ==
    CASE i = 1 -> "read-only mode"
      [] i = 2 -> "dev-only mode"
      [] i = 3 -> "SAP-standard object"
      [] i = 4 -> "blocked package"
      [] i = 5 -> "package not allowed"
      [] OTHER -> ""

\* the rules, were rule 1 to deny only the classes that change objects
RuleMatchesChangesOnly(i, p, o) ==
    CASE i = 1 -> p.mode = "read-only" /\ o.class \in {"Write", "Create", "Delete"}
      [] i = 2 -> p.mode = "dev-only" /\ o.class \in {"Transport"}
      [] i = 3 -> /\ o.name # <<>>
                  /\ ~DevelopmentDomain(o.name)
                  /\ o.class \in {"Write", "Create", "Delete"}
                  /\ p.mode # "full"
      [] i = 4 -> o.name \in p.BlockedPackages
      [] i = 5 -> /\ o.name # <<>>
                  /\ p.AllowedPackages # {}
                  /\ o.name \notin p.AllowedPackages
      [] OTHER -> FALSE

\* whether rule i of the SafetyPolicy denies operation o under policy p
RuleMatches(i, p, o) ==
    CASE i = 1 -> p.mode = "read-only" /\ o.class # "Read"
      [] i = 2 -> p.mode = "dev-only" /\ o.class \in {"Transport"}
      [] i = 3 -> /\ o.name # <<>>
                  /\ ~DevelopmentDomain(o.name)
                  /\ o.class \in {"Write", "Create", "Delete"}
                  /\ p.mode # "full"
      [] i = 4 -> o.name \in p.BlockedPackages
      [] i = 5 -> /\ o.name # <<>>
                  /\ p.AllowedPackages # {}
                  /\ o.name \notin p.AllowedPackages
      [] OTHER -> FALSE

\* the variables the policy model leaves alone
policyRest == <<daemonVars, timeoutVars, readerVars, methodVars, packageVars,
                graphVars, compareVars, extractVars, execVars, writeVars,
                transportVars, msgclassVars>>

PolicyInit ==
    /\ DaemonInit
    /\ TimeoutIdle
    /\ ReaderIdle
    /\ MethodIdle
    /\ PackageIdle
    /\ GraphIdle
    /\ CompareIdle
    /\ ExtractIdle
    /\ ExecIdle
    /\ WriteIdle
    /\ TransportIdle
    /\ MsgclassIdle
    /\ ppc = "called"
    /\ policy \in Policies
    /\ pop \in Operations
    /\ prule = 0
    /\ pdecision = NoDecision

\* client.go:40-42  return c.config.Safety.CheckOperation(op, opName)
checkSafety ==
    /\ ppc = "called"
    /\ ppc' = "rules"
    /\ prule' = 1
    /\ UNCHANGED <<policy, pop, pdecision>>
    /\ UNCHANGED policyRest

\* rules 1 to 5, in order: the first that matches denies
CheckRule ==
    /\ ppc = "rules"
    /\ prule < LastRule
    /\ IF RuleMatches(prule, policy, pop)
         THEN /\ pdecision' = Decision("Denied", prule, RuleReason(prule))
              /\ ppc' = "done"
              /\ prule' = prule
         ELSE /\ prule' = prule + 1
              /\ UNCHANGED <<ppc, pdecision>>
    /\ UNCHANGED <<policy, pop>>
    /\ UNCHANGED policyRest

\* rule 6: otherwise allow
AllowOtherwise ==
    /\ ppc = "rules"
    /\ prule = LastRule
    /\ pdecision' = Decision("ok", prule, "")
    /\ ppc' = "done"
    /\ UNCHANGED <<policy, pop, prule>>
    /\ UNCHANGED policyRest

PolicyNext == checkSafety \/ CheckRule \/ AllowOtherwise

PolicySpec == PolicyInit /\ [][PolicyNext]_vars


\* ===================================================================
\* modifyMessageClassXML, the surgical edit of a message-class document
\* (spec section 4.3; its tests are part_000:231-406): one call, for every
\* document of up to MaxMessages messages records with distinct msgnos, with
\* or without the mc: prefix and line breaks, every record self-closing,
\* paired or paired around an atom:link, and for every update map and
\* lock-handle map over two msgnos.  A document is the sequence of its
\* pieces: the declaration, line breaks, the open tag, the records and the
\* close tag; a record around an atom:link is three pieces, its open tag,
\* the link and its end tag.  A text is the sequence of its characters, an
\* escaped character being one piece.
\* ===================================================================
Prefixes == {"", "mc:"}
LineBreaks == {"", "\n"}
Msgnos == {"001", "002", "003"}
UpdateMsgnos == {"001", "004"}
RecordForms == {"self-closing", "paired", "children"}
OldText == <<"O", "l", "d">>
NewTexts == {<<>>, <<"N", "e", "w">>, <<"a", "&", "<">>}
LockHandles == {"LOCK123"}

Piece(kind, prefix, text) ==
    [kind |-> kind, prefix |-> prefix, text |-> text, msgno |-> "",
     msgtext |-> <<>>, lockhandle |-> "", form |-> ""]
Record(prefix, msgno, msgtext, lockhandle, form) ==
    [kind |-> "messages", prefix |-> prefix, text |-> "", msgno |-> msgno,
     msgtext |-> msgtext, lockhandle |-> lockhandle, form |-> form]

\* the atom:link inside a record and the end tag of that record
Child(kind, prefix, msgno) == [Piece(kind, prefix, "") EXCEPT !.msgno = msgno]

\* the records of a document body: msgno and form of each, msgnos distinct
RecordSpecs == [msgno : Msgnos, form : RecordForms]
RECURSIVE RecordLists(_)
RecordLists(n) ==
    IF n = 0 THEN {<<>>}
    ELSE LET shorter == RecordLists(n - 1)
         IN shorter \cup
              UNION {{Append(q, r) : r \in {x \in RecordSpecs :
                                              \A i \in 1..Len(q) : q[i].msgno # x.msgno}} :
                       q \in shorter}
RECURSIVE BodyOf(_, _, _)
BodyOf(prefix, br, rs) ==
    IF rs = <<>> THEN <<>>
    ELSE <<Record(prefix, Head(rs).msgno, OldText, "", Head(rs).form)>>
           \o (IF br = "" THEN <<>> ELSE <<Piece("text", "", br)>>)
           \o (IF Head(rs).form # "children" THEN <<>>
               ELSE <<Child("link", "atom:", Head(rs).msgno)>>
                      \o (IF br = "" THEN <<>> ELSE <<Piece("text", "", br)>>)
                      \o <<Child("end", prefix, Head(rs).msgno)>>
                      \o (IF br = "" THEN <<>> ELSE <<Piece("text", "", br)>>))
           \o BodyOf(prefix, br, Tail(rs))
Document(prefix, br, rs) ==
    <<Piece("declaration", "", "<?xml version=\"1.0\" encoding=\"utf-8\"?>")>>
      \o (IF br = "" THEN <<>> ELSE <<Piece("text", "", br)>>)
      \o <<Piece("open", prefix, "messageClass")>>
      \o (IF br = "" THEN <<>> ELSE <<Piece("text", "", br)>>)
      \o BodyOf(prefix, br, rs)
      \o <<Piece("close", prefix, "messageClass")>>
Documents ==
    {Document(p, br, rs) : p \in Prefixes, br \in LineBreaks,
                           rs \in RecordLists(MaxMessages)}
MapsOver(keys, values) == UNION {[d -> values] : d \in SUBSET keys}

\* escape of &, <, > and " in a text value
EscapeXmlChar(c) ==
    CASE c = "&" -> "&amp;"
      [] c = "<" -> "&lt;"
      [] c = ">" -> "&gt;"
      [] c = "\"" -> "&quot;"
      [] OTHER -> c
EscapeXml(t) == [i \in 1..Len(t) |-> EscapeXmlChar(t[i])]

\* the places of the messages records with the msgno, and of the close tag
PlacesOf(doc, msgno) ==
    {i \in 1..Len(doc) : doc[i].kind = "messages" /\ doc[i].msgno = msgno}
ClosePlace(doc) == CHOOSE i \in 1..Len(doc) : doc[i].kind = "close"

\* the namespace prefix observed on the messages records, none if there is
\* no record
ObservedPrefix(doc) ==
    IF \E i \in 1..Len(doc) : doc[i].kind = "messages"
      THEN doc[CHOOSE i \in 1..Len(doc) : doc[i].kind = "messages"].prefix
      ELSE ""

\* the place where the record opened at place i ends: the place itself, or
\* that of the next end tag if the record has children
EndPlace(doc, i) ==
    IF doc[i].form # "children" THEN i
    ELSE CHOOSE j \in i..Len(doc) :
           /\ doc[j].kind = "end"
           /\ \A k \in i..(j - 1) : doc[k].kind # "end"
RemoveRange(doc, i, j) == SubSeq(doc, 1, i - 1) \o SubSeq(doc, j + 1, Len(doc))
InsertBefore(doc, i, piece) ==
    SubSeq(doc, 1, i - 1) \o <<piece>> \o SubSeq(doc, i, Len(doc))

\* the document after the entry (msgno, text) of the update map, were a
\* deletion to take out the open tag of the record only
EditOfOpenTagOnly(doc, msgno, text, locks) ==
    IF PlacesOf(doc, msgno) # {}
      THEN LET i == CHOOSE j \in PlacesOf(doc, msgno) : TRUE
           IN IF text = <<>> THEN RemoveRange(doc, i, i)
              ELSE [doc EXCEPT ![i].msgtext = EscapeXml(text)]
      ELSE IF text = <<>> THEN doc
           ELSE InsertBefore(doc, ClosePlace(doc),
                  Record(ObservedPrefix(doc), msgno, EscapeXml(text),
                         IF msgno \in DOMAIN locks THEN locks[msgno] ELSE "",
                         "self-closing"))

\* the document after the entry (msgno, text) of the update map
EditOf(doc, msgno, text, locks) ==
    IF PlacesOf(doc, msgno) # {}
      THEN LET i == CHOOSE j \in PlacesOf(doc, msgno) : TRUE
           IN IF text = <<>> THEN RemoveRange(doc, i, EndPlace(doc, i))
              ELSE [doc EXCEPT ![i].msgtext = EscapeXml(text)]
      ELSE IF text = <<>> THEN doc
           ELSE InsertBefore(doc, ClosePlace(doc),
                  Record(ObservedPrefix(doc), msgno, EscapeXml(text),
                         IF msgno \in DOMAIN locks THEN locks[msgno] ELSE "",
                         "self-closing"))

\* the bytes of a full parse and serialisation: line breaks are gone and an
\* empty paired record is written self-closing
IsMarkup(p) == p.kind # "text"
Reserialized(doc) ==
    LET kept == SelectSeq(doc, IsMarkup)
    IN [i \in 1..Len(kept) |->
          IF kept[i].form = "paired" THEN [kept[i] EXCEPT !.form = "self-closing"]
          ELSE kept[i]]

\* the tolerant decoder on a text value: the character an entity stands for,
\* and no text at all if a bare & or < is left in the value
DecodeChar(c) ==
    CASE c = "&amp;" -> "&"
      [] c = "&lt;" -> "<"
      [] c = "&gt;" -> ">"
      [] c = "&quot;" -> "\""
      [] OTHER -> c
DecodeText(t) ==
    IF \E i \in 1..Len(t) : t[i] \in {"&", "<"}
      THEN [ok |-> FALSE, text |-> <<>>]
      ELSE [ok |-> TRUE, text |-> [i \in 1..Len(t) |-> DecodeChar(t[i])]]

\* the variables the message-class model leaves alone
msgclassRest == <<daemonVars, timeoutVars, readerVars, methodVars, packageVars,
                  graphVars, compareVars, extractVars, execVars, writeVars,
                  transportVars, policyVars>>

MsgClassInit ==
    /\ DaemonInit
    /\ TimeoutIdle
    /\ ReaderIdle
    /\ MethodIdle
    /\ PackageIdle
    /\ GraphIdle
    /\ CompareIdle
    /\ ExtractIdle
    /\ ExecIdle
    /\ WriteIdle
    /\ TransportIdle
    /\ PolicyIdle
    /\ mcpc = "called"
    /\ xmlInput \in Documents
    /\ updates \in MapsOver(UpdateMsgnos, NewTexts)
    /\ lockHandles \in MapsOver({"004"}, LockHandles)
    /\ xmlOut = <<>>
    /\ applied = {}
    /\ updatedMap = EmptyMap
    /\ deletedList = <<>>
    /\ mcret = NoModifyResult

\* the edit starts on the bytes handed in
ModifyStart ==
    /\ mcpc = "called"
    /\ xmlOut' = xmlInput
    /\ mcpc' = "edit"
    /\ UNCHANGED <<xmlInput, updates, lockHandles, applied, updatedMap,
                   deletedList, mcret>>
    /\ UNCHANGED msgclassRest

\* one entry of the update map, were an empty text to put the msgno on the
\* list of deleted msgnos whether or not the document has the record
ApplyUpdateDeleteAbsent ==
    /\ mcpc = "edit"
    /\ \E msgno \in (DOMAIN updates) \ applied :
         LET text == updates[msgno]
         IN /\ applied' = applied \cup {msgno}
            /\ xmlOut' = EditOf(xmlOut, msgno, text, lockHandles)
            /\ updatedMap' = IF text # <<>> THEN Put(updatedMap, msgno, text)
                             ELSE updatedMap
            /\ deletedList' = IF text = <<>>
                                THEN Append(deletedList, msgno)
                                ELSE deletedList
    /\ UNCHANGED <<mcpc, xmlInput, updates, lockHandles, mcret>>
    /\ UNCHANGED msgclassRest

\* one entry of the update map: replace the msgtext of the record in place,
\* delete the record if the new text is empty, append a new record before
\* the close tag if there is none
ApplyUpdate ==
    /\ mcpc = "edit"
    /\ \E msgno \in (DOMAIN updates) \ applied :
         LET text == updates[msgno]
             exists == PlacesOf(xmlOut, msgno) # {}
         IN /\ applied' = applied \cup {msgno}
            /\ xmlOut' = EditOf(xmlOut, msgno, text, lockHandles)
            /\ updatedMap' = IF text # <<>> THEN Put(updatedMap, msgno, text)
                             ELSE updatedMap
            /\ deletedList' = IF text = <<>> /\ exists
                                THEN Append(deletedList, msgno)
                                ELSE deletedList
    /\ UNCHANGED <<mcpc, xmlInput, updates, lockHandles, mcret>>
    /\ UNCHANGED msgclassRest

\* the return, were the bytes returned those of a parse and serialisation
ModifyReturnReserialized ==
    /\ mcpc = "edit"
    /\ applied = DOMAIN updates
    /\ mcret' = ModifyResult(TRUE, Reserialized(xmlOut), updatedMap, deletedList)
    /\ mcpc' = "done"
    /\ UNCHANGED <<xmlInput, updates, lockHandles, xmlOut, applied, updatedMap,
                   deletedList>>
    /\ UNCHANGED msgclassRest

\* return the edited bytes, the map of updated msgnos and the list of
\* deleted msgnos
ModifyReturn ==
    /\ mcpc = "edit"
    /\ applied = DOMAIN updates
    /\ mcret' = ModifyResult(TRUE, xmlOut, updatedMap, deletedList)
    /\ mcpc' = "done"
    /\ UNCHANGED <<xmlInput, updates, lockHandles, xmlOut, applied, updatedMap,
                   deletedList>>
    /\ UNCHANGED msgclassRest

MsgClassNext == ModifyStart \/ ApplyUpdate \/ ModifyReturn

MsgClassSpec == MsgClassInit /\ [][MsgClassNext]_vars


\* ===================================================================
\* Properties
\* ===================================================================
Active == {"waiting", "caught", "attached"}
Allocated == 1..nsess
ListenerRunning(s) == lpc[s] \in {"listen", "outcome", "attach", "stack"}
NeedSession == {"stopSession", "handleStep", "handleStack", "handleVariables"}

\* C1: a POST /session whose conflict test finds in the slot a session with
\* status waiting, caught or attached answers 409, leaves the slot and the
\* set of sessions as they are and starts no listener.
C1_SessionExclusivity ==
    [][\A h \in Handlers :
         (/\ hpc[h] = "start_check"
          /\ hpc'[h] # "start_check"
          /\ slot # Nil
          /\ sess[slot].Status \in Active)
         => (/\ resp'.h = h
             /\ resp'.op = "startSession"
             /\ resp'.code = StatusConflict
             /\ slot' = slot
             /\ nsess' = nsess
             /\ sess' = sess
             /\ lpc' = lpc)]_vars

\* a POST /session has just been refused while the slot holds an attached
\* session
C1_Witness ==
    /\ resp.op = "startSession"
    /\ resp.code = StatusConflict
    /\ slot # Nil
    /\ sess[slot].Status = "attached"

\* C2: at no moment are two session objects non-terminal (waiting, caught,
\* attached), and at most one listener goroutine is running.
C2_OneActiveSession ==
    /\ \A s, u \in Allocated :
         (s # u /\ sess[s].Status \in Active) => sess[u].Status \notin Active
    /\ Cardinality({s \in Allocated : ListenerRunning(s)}) <= 1

\* C3: a session whose status is stopped keeps that status in every step.
C3_StoppedIsFinal ==
    [][\A s \in SessionIds :
         sess[s].Status = "stopped" => sess'[s].Status = "stopped"]_vars

\* C4: the 200 response of POST /session reports the id of the session it
\* created, with status waiting.
C4_StartReportsWaiting ==
    (resp.op = "startSession" /\ resp.code = StatusOK)
      => (resp.id \in Allocated /\ resp.status = "waiting")

\* C5: when the long-poll returned without error and without debuggee, the
\* listener ends with status timeout, DebuggeeID still empty and no attach
\* call; a session with status timeout never has a DebuggeeID; GET /session
\* on it reports timeout with 200, and DELETE /session on a session answers
\* 200.
C5_TimeoutOutcome ==
    [][/\ \A s \in SessionIds :
            (lpc[s] = "outcome" /\ lpc'[s] # "outcome" /\ lres[s] \in NoDebuggee)
            => (/\ sess'[s].Status = "timeout"
                /\ sess[s].DebuggeeID = ""
                /\ sess'[s].DebuggeeID = ""
                /\ lpc'[s] = "done"
                /\ calls' = {})
       /\ \A s \in SessionIds : sess'[s].Status = "timeout" => sess'[s].DebuggeeID = ""
       /\ \A h \in Handlers :
            (hpc[h] = "get_read" /\ hpc'[h] # "get_read"
               /\ sess[ls[h]].Status = "timeout")
            => (resp'.h = h /\ resp'.code = StatusOK /\ resp'.status = "timeout")
       /\ \A h \in Handlers :
            (hpc[h] = "stop_set" /\ hpc'[h] # "stop_set"
               /\ sess[ls[h]].Status = "timeout")
            => (resp'.h = h /\ resp'.code = StatusOK)]_vars

\* GET /session has just reported timeout for a session whose listener ended
C5_Witness ==
    /\ resp.op = "getSession"
    /\ resp.code = StatusOK
    /\ resp.status = "timeout"
    /\ lpc[resp.id] = "done"
    /\ sess[resp.id].DebuggeeID = ""

\* C6: a session becomes attached only in a step that starts from status
\* caught with the debuggee's id stored and in which the attach call
\* succeeded; a failed attach call gives attach_failed with Error set, and a
\* session whose attach failed never becomes attached.
C6_AttachedOnlyAfterCaught ==
    [][\A s \in SessionIds :
         /\ (sess'[s].Status = "attached" /\ sess[s].Status # "attached")
            => (/\ sess[s].Status = "caught"
                /\ sess[s].DebuggeeID \in DebuggeeIds
                /\ sess'[s].DebuggeeID = sess[s].DebuggeeID
                /\ Call("DebuggerAttach", s, TRUE) \in calls')
         /\ Call("DebuggerAttach", s, FALSE) \in calls'
            => (sess'[s].Status = "attach_failed" /\ sess'[s].Error # "")
         /\ sess[s].Error = AttachErr => sess'[s].Status # "attached"]_vars

\* a session has just become attached through a successful attach call
C6_Witness ==
    \E s \in Allocated :
      /\ sess[s].Status = "attached"
      /\ sess[s].DebuggeeID \in DebuggeeIds
      /\ Call("DebuggerAttach", s, TRUE) \in calls

\* C7: DELETE /session that found a session in the slot answers 200 and
\* leaves that session stopped, whatever its status was; it issues a detach
\* call exactly when the DebuggeeID it reads is non-empty; the only other
\* answer of DELETE /session is given when the slot is empty.
C7_StopAlwaysStops ==
    [][\A h \in Handlers :
         /\ (hpc[h] = "stop_set" /\ hpc'[h] # "stop_set")
            => (/\ resp'.h = h
                /\ resp'.op = "stopSession"
                /\ resp'.code = StatusOK
                /\ sess'[ls[h]].Status = "stopped")
         /\ (hpc[h] = "stop_detach" /\ hpc'[h] # "stop_detach")
            => (/\ hpc'[h] = "stop_set"
                /\ (sess[ls[h]].DebuggeeID # ""
                      <=> \E ok \in BOOLEAN :
                            Call("DebuggerDetach", ls[h], ok) \in calls'))
         /\ (hpc[h] = "idle" /\ resp'.h = h /\ resp'.op = "stopSession")
            => slot = Nil]_vars

\* DELETE /session has just answered 200 for a session that had a debuggee
C7_Witness ==
    /\ resp.op = "stopSession"
    /\ resp.code = StatusOK
    /\ sess[resp.id].Status = "stopped"
    /\ sess[resp.id].DebuggeeID # ""

\* C8: after a successful POST /step of type terminate the session is
\* stopped; a successful step of another type leaves it attached (unless a
\* concurrent DELETE /session stopped it).
C8_TerminateStops ==
    (resp.op = "handleStep" /\ resp.code = StatusOK)
      => IF resp.status = "terminate"
           THEN sess[resp.id].Status = "stopped"
           ELSE sess[resp.id].Status \in {"attached", "stopped"}

\* C9: every access to the slot is made with the daemon mutex held, every
\* access to a session field with that session's mutex held, and no field is
\* accessed while another task is inside the session's critical section.
C9_MutexDiscipline ==
    /\ \A a \in acc : a.held
    /\ \A a \in acc : a.obj # Nil => smu[a.obj] \in {Free, a.task}

\* C10: a request that needs a session and finds the slot empty is answered
\* 404.
C10_NoSessionIs404 ==
    (resp.op \in NeedSession /\ slot = Nil /\ resp.code # StatusMethodNotAllowed)
      => resp.code = StatusNotFound

\* C13: whenever the Stack of a session is non-empty, its CurrentURI and
\* CurrentLine are the URI and Line of the top frame Stack[0] (index 1 here),
\* whatever listener attaches, steps and stack requests came before.
C13_CurrentTracksFrame0 ==
    \A s \in Allocated :
        Len(sess[s].Stack) > 0
          => /\ sess[s].CurrentURI = sess[s].Stack[1].URI
             /\ sess[s].CurrentLine = sess[s].Stack[1].Line

\* a GET /stack has just replaced a one-frame stack by a two-frame one
C13_Witness ==
    /\ resp.op = "handleStack"
    /\ resp.code = StatusOK
    /\ sess[resp.id].Stack = <<FrameB, FrameA>>
    /\ sess[resp.id].CurrentURI = FrameB.URI

\* the fields of the sessions a failed request must leave alone
SessionData(se) ==
    <<se.Status, se.Breakpoints, se.Stack, se.CurrentURI, se.CurrentLine,
      se.Variables>>
\* the SAP call each endpoint is there to make
EndpointCall ==
    [setBreakpoint |-> "SetExternalBreakpoint",
     listBreakpoints |-> "GetExternalBreakpoints",
     deleteBreakpoint |-> "DeleteExternalBreakpoint",
     handleStep |-> "DebuggerStep",
     handleStack |-> "DebuggerGetStack",
     handleVariables |-> "DebuggerGetVariables"]
\* the endpoint whose handler h makes its SAP call in a step from position pc
EndpointAt(pc) ==
    CASE pc = "step_call" -> "handleStep"
      [] pc = "stack_check" -> "handleStack"
      [] pc = "vars_check" -> "handleVariables"
      [] OTHER -> "none"

\* C11: when the SAP call an endpoint is there to make (SetExternalBreakpoint,
\* GetExternalBreakpoints, DeleteExternalBreakpoint, DebuggerStep, the
\* DebuggerGetStack of GET /stack, DebuggerGetVariables) returns an error,
\* the step that made it answers 500 with success=false and leaves Status,
\* Breakpoints, Stack, CurrentURI, CurrentLine and Variables of every session
\* as they were.
C11_UpstreamFailureIs500 ==
    [][\A c \in calls' :
         (/\ ~c.ok
          /\ \/ c.name \in {"SetExternalBreakpoint", "GetExternalBreakpoints",
                           "DeleteExternalBreakpoint"}
             \/ \E h \in Handlers :
                  /\ EndpointAt(hpc[h]) # "none"
                  /\ hpc'[h] = "idle"
                  /\ c.name = EndpointCall[EndpointAt(hpc[h])])
         => (/\ resp'.code = StatusInternalServerError
             /\ ~resp'.success
             /\ resp'.op \in DOMAIN EndpointCall
             /\ EndpointCall[resp'.op] = c.name
             /\ \A s \in SessionIds : SessionData(sess'[s]) = SessionData(sess[s]))
    ]_vars

\* DELETE /breakpoint was answered 500 while an attached session with a
\* stack and a tracked breakpoint exists
C11_Witness ==
    /\ resp.op = "deleteBreakpoint"
    /\ resp.code = StatusInternalServerError
    /\ calls = {Call("DeleteExternalBreakpoint", Nil, FALSE)}
    /\ slot # Nil
    /\ sess[slot].Status = "attached"
    /\ Len(sess[slot].Breakpoints) > 0

\* what the claim calls invalid breakpoint input
InvalidBreakpointInput(req) ==
    \/ req.Kind = ""
    \/ req.Kind \notin {"line", "exception", "statement"}
    \/ req.Kind = "line" /\ (req.URI = "" \/ req.Line = 0)
    \/ req.Kind = "exception" /\ req.Exception = ""
    \/ req.Kind = "statement" /\ req.Statement = ""

\* C12: a POST /breakpoint whose body has an empty kind, a kind other than
\* line, exception and statement, a line breakpoint without uri or with
\* line 0, an exception breakpoint without exception or a statement
\* breakpoint without statement is answered 400 in the step that decoded it,
\* with no call to SAP and the breakpoints of every session unchanged.
C12_InvalidBreakpointRejected ==
    [][(bpreq' # NoBpReq /\ bpreq'.Kind # "badjson"
          /\ InvalidBreakpointInput(bpreq'))
         => (/\ resp'.op = "setBreakpoint"
             /\ resp'.code = StatusBadRequest
             /\ calls' = {}
             /\ \A h \in Handlers : hpc'[h] = "track_append" => hpc[h] = hpc'[h]
             /\ \A s \in SessionIds :
                  sess'[s].Breakpoints = sess[s].Breakpoints)
    ]_vars

\* a line breakpoint with a uri and line 0 was rejected while the session in
\* the slot tracks a breakpoint
C12_Witness ==
    /\ bpreq = BpReq("line", FrameA.URI, 0, "", "")
    /\ resp.op = "setBreakpoint"
    /\ resp.code = StatusBadRequest
    /\ slot # Nil
    /\ Len(sess[slot].Breakpoints) = 1

\* C14: the TimeoutSeconds handed to the long-poll is the timeout the caller
\* sent, or the default 60 when the caller sent none or 0, and it is at most
\* five minutes (300 s) whatever integer the caller sent.
C14_ListenTimeoutBounded ==
    tpc = "listening"
      => /\ listenTimeout = IF ~sentTimeout.present \/ sentTimeout.value = 0
                              THEN DefaultTimeout ELSE sentTimeout.value
         /\ listenTimeout <= FiveMinutes

\* C15: a read operation has applied the safety policy with class Read
\* before it hands a request to the transport, and under a policy that
\* denies reads it hands none.
C15_ReadsApplySafety ==
    /\ Len(requests) > 0 => (Len(checks) > 0 /\ checks[1] = "Read")
    /\ ~policyAllows => requests = <<>>

\* path contains the pieces of part, in a row
Contains(path, part) ==
    \E i \in 0..(Len(path) - Len(part)) :
        SubSeq(path, i + 1, i + Len(part)) = part
\* url-encode(upper(n)), every '/' of the name as %2F
Encoded(n) == [i \in 1..Len(n) |->
                 IF n[i] = "/" THEN "%2F" ELSE UpperChar(n[i])]

\* C16: once a read by name (program, class, interface, function module and
\* its group, include, CDS source, behaviour definition, service definition,
\* service binding, table, view, structure) has handed its request to the
\* transport, the path of the request contains url-encode(upper(n)) of the
\* name, with every '/' of the name encoded as %2F.
C16_NameNormalization ==
    (rpc \in {"requested", "returned", "failed"}
       /\ rcall.op \in NamedReads \cup {"GetFunction"})
      => /\ Contains(requests[1].path, Encoded(rcall.name))
         /\ Contains(requests[1].path, Encoded(rcall.group))

\* the method of the structure the call names, if any
Named == {i \in 1..Len(structure) : structure[i].Name = ToUpper(mcall)}
\* both line numbers lie within the source
WithinSource(m) ==
    /\ 1 <= m.ImplementationStart
    /\ m.ImplementationStart <= m.ImplementationEnd
    /\ m.ImplementationEnd <= Len(source)

\* C17: a call of GetClassMethodSource whose two reads succeeded ends in one
\* of three ways: it returns the lines start..end (inclusive, counted from 1)
\* of the source; it fails with NotFound, when the method is absent or its
\* start or end is 0; it fails with OutOfRange, when the bounds do not lie
\* within the source.  Nothing else happens, whatever start and end are.
C17_MethodSourceOutcomes ==
    (mpc = "done" /\ mresult.kind # "TransportError")
      => /\ mresult.kind \in {"lines", "NotFound", "OutOfRange"}
         /\ mresult.kind = "NotFound"
              <=> (Named = {} \/ method.ImplementationStart = 0
                              \/ method.ImplementationEnd = 0)
         /\ mresult.kind = "lines"
              => mresult.lines = [i \in 1..(method.ImplementationEnd -
                                            method.ImplementationStart + 1) |->
                                    source[method.ImplementationStart + i - 1]]
         /\ mresult.kind = "OutOfRange" => ~WithinSource(method)

IsSubPackageNode(node) == node.ObjectName # "" /\ node.ObjectType = "DEVC/K"
IsObjectNode(node) == node.ObjectName # "" /\ node.ObjectType # "DEVC/K"
\* the sequence of f(x) for the elements x of q
NamesOf(q) == [i \in 1..Len(q) |-> q[i].ObjectName]
UrisOf(q) == [i \in 1..Len(q) |-> q[i].URI]
NodeUrisOf(q) == [i \in 1..Len(q) |-> q[i].ObjectURI]

\* C18: a package read whose response has an empty body returns, without
\* error, a PackageContent with the upper-cased package name and empty
\* Objects and SubPackages; for a document, the named nodes of type DEVC/K
\* are the SubPackages and the other named nodes the Objects, each once and
\* in document order, and the nodes without a name are in neither.
C18_PackageDecoding ==
    (kpc = "done" /\ kresult.kind # "TransportError")
      => /\ data.kind = "empty"
              => /\ kresult.kind = "ok"
                 /\ ~kresult.pkg.isNil
                 /\ kresult.pkg.Name = ToUpper(pkgArg)
                 /\ kresult.pkg.Objects = <<>>
                 /\ kresult.pkg.SubPackages = <<>>
         /\ data.kind = "xml"
              => /\ kresult.kind = "ok"
                 /\ kresult.pkg.Name = ToUpper(pkgArg)
                 /\ kresult.pkg.SubPackages =
                      NamesOf(SelectSeq(data.nodes, IsSubPackageNode))
                 /\ UrisOf(kresult.pkg.Objects) =
                      NodeUrisOf(SelectSeq(data.nodes, IsObjectNode))
                 /\ \A i \in 1..Len(kresult.pkg.Objects) :
                      LET o == kresult.pkg.Objects[i]
                      IN /\ o.Name = data.nodes[o.URI].ObjectName
                         /\ o.Type = data.nodes[o.URI].ObjectType
                         /\ o.Name # ""

\* a document with a sub-package, an object and a node without a name was
\* decoded
C18_Witness ==
    /\ kpc = "done"
    /\ kresult.kind = "ok"
    /\ data.kind = "xml"
    /\ Len(kresult.pkg.SubPackages) = 1
    /\ Len(kresult.pkg.Objects) = 1
    /\ Len(data.nodes) = 3

\* number of nodes, set of URIs and pre-order list of links of a tree
RECURSIVE NodeCount(_), NodesFrom(_, _), TreeURIs(_), LinksOf(_), LinksFrom(_, _)
NodesFrom(n, i) ==
    IF i > Len(n.Children) THEN 0
    ELSE NodeCount(n.Children[i]) + NodesFrom(n, i + 1)
NodeCount(n) == 1 + NodesFrom(n, 1)
TreeURIs(n) ==
    {n.URI} \cup UNION {TreeURIs(n.Children[i]) : i \in 1..Len(n.Children)}
\* the link from n to its i-th child, the links below that child, then the
\* same for the children after it
LinksFrom(n, i) ==
    IF i > Len(n.Children) THEN <<>>
    ELSE <<<<n.URI, n.Children[i].URI>>>> \o LinksOf(n.Children[i])
           \o LinksFrom(n, i + 1)
LinksOf(n) == LinksFrom(n, 1)
Sum(f) == f["CLAS/OM"] + f["PROG/P"]

\* C19: FlattenCallGraph returns the parent-to-child links of the tree in
\* pre-order, one edge for each, a link that occurs several times as often
\* as it occurs: as many edges as the tree has nodes other than the root;
\* for a nil root it returns no edge.
C19_FlattenPreOrder ==
    (gpc = "done" /\ gfun = "FlattenCallGraph")
      => IF root.isNil THEN edges = <<>>
         ELSE /\ Len(edges) = NodeCount(root) - 1
              /\ [i \in 1..Len(edges) |->
                    <<edges[i].CallerURI, edges[i].CalleeURI>>] = LinksOf(root)
              /\ \A i \in 1..Len(edges) :
                   /\ edges[i].CallerName = NameOfURI(edges[i].CallerURI)
                   /\ edges[i].CalleeName = NameOfURI(edges[i].CalleeURI)

\* a tree in which the same caller calls the same callee twice was flattened
C19_Witness ==
    /\ gpc = "done"
    /\ gfun = "FlattenCallGraph"
    /\ Len(edges) = 3
    /\ edges[1] = edges[3]
    /\ edges[1] # edges[2]

\* C20: AnalyzeCallGraph returns TotalNodes equal to the number of distinct
\* URIs of the tree, as many UniqueNodes, and NodesByType whose values sum to
\* TotalNodes; for a nil root all statistics are zero.
C20_UniqueNodesByURI ==
    (gpc = "done" /\ gfun = "AnalyzeCallGraph")
      => IF root.isNil
           THEN /\ stats.TotalNodes = 0
                /\ stats.TotalEdges = 0
                /\ stats.MaxDepth = 0
                /\ stats.UniqueNodes = <<>>
                /\ \A t \in NodeKinds : stats.NodesByType[t] = 0
           ELSE /\ stats.TotalNodes = Cardinality(TreeURIs(root))
                /\ Len(stats.UniqueNodes) = stats.TotalNodes
                /\ Sum(stats.NodesByType) = stats.TotalNodes

\* a tree of four nodes with two distinct URIs was analysed
C20_Witness ==
    /\ gpc = "done"
    /\ gfun = "AnalyzeCallGraph"
    /\ ~root.isNil
    /\ NodeCount(root) = 4
    /\ stats.TotalNodes = 2

\* the sum of the numbers of a sequence
RECURSIVE Sum0(_)
Sum0(q) == IF q = <<>> THEN 0 ELSE Head(q) + Sum0(Tail(q))

\* sum over the nodes of a tree of their numbers of children
RECURSIVE ChildCountSum(_)
ChildCountSum(n) ==
    Len(n.Children)
      + Sum0([i \in 1..Len(n.Children) |-> ChildCountSum(n.Children[i])])

\* C21: for every tree AnalyzeCallGraph returns TotalEdges equal to the sum
\* of the child counts of the nodes of the tree, and FlattenCallGraph returns
\* as many edges as that sum, so the two agree on every tree; nodes that
\* repeat a URI do not lower either; for a nil root both are zero.
C21_TotalEdgesIsFlattenLength ==
    gpc = "done"
      => LET expected == IF root.isNil THEN 0 ELSE ChildCountSum(root)
         IN /\ gfun = "AnalyzeCallGraph" => stats.TotalEdges = expected
            /\ gfun = "FlattenCallGraph" => Len(edges) = expected

\* a tree of four nodes that all carry the same URI was analysed
C21_Witness ==
    /\ gpc = "done"
    /\ gfun = "AnalyzeCallGraph"
    /\ ~root.isNil
    /\ Cardinality(TreeURIs(root)) = 1
    /\ stats.TotalEdges = 3

\* the keys of an edge list
KeysOf(es) == {KeyOf(es[i]) : i \in 1..Len(es)}

\* C22: CompareCallGraphs returns a coverage ratio that is 0 for an empty
\* static list and otherwise the number of common edges over the size of the
\* static list; the ratio lies between 0 and 1, and for a non-empty static
\* list it is 1 (numerator equal to denominator) exactly when every edge of
\* the static list has its caller->callee key in the actual list, also when
\* the static list holds the same caller->callee pair more than once.
C22_CoverageRatio ==
    cpc = "done"
      => LET r == comp.CoverageRatio
         IN /\ r.den > 0
            /\ 0 <= r.num
            /\ r.num <= r.den
            /\ staticEdges = <<>> => r.num = 0
            /\ staticEdges # <<>>
                 => (r.num = r.den <=> KeysOf(staticEdges) \subseteq KeysOf(actualEdges))

\* C23: CompareCallGraphs partitions the edges by their caller->callee key:
\* no key occurs twice across CommonEdges, StaticOnly and ActualOnly; the
\* keys of CommonEdges are those of both lists, the keys of StaticOnly those
\* of the static list alone and the keys of ActualOnly those of the actual
\* list alone.
C23_PartitionByKey ==
    cpc = "done"
      => LET all == comp.CommonEdges \o comp.StaticOnly \o comp.ActualOnly
         IN /\ \A i, j \in 1..Len(all) : KeyOf(all[i]) = KeyOf(all[j]) => i = j
            /\ KeysOf(comp.CommonEdges)
                 = KeysOf(staticEdges) \cap KeysOf(actualEdges)
            /\ KeysOf(comp.StaticOnly)
                 = KeysOf(staticEdges) \ KeysOf(actualEdges)
            /\ KeysOf(comp.ActualOnly)
                 = KeysOf(actualEdges) \ KeysOf(staticEdges)

\* a comparison returned a common, a static-only and an actual-only edge
C23_Witness ==
    /\ cpc = "done"
    /\ Len(comp.CommonEdges) = 1
    /\ Len(comp.StaticOnly) = 1
    /\ Len(comp.ActualOnly) = 1

\* the Programs of the entries that have one, in order, and the changes of
\* program between neighbours among them
HasProgram(e) == e.Program # <<>>
ProgramsOf(es) ==
    LET kept == SelectSeq(es, HasProgram)
    IN [i \in 1..Len(kept) |-> kept[i].Program]
IsChange(pr) == pr[1] # pr[2]
ChangesOf(ps) ==
    SelectSeq([i \in 1..(IF Len(ps) = 0 THEN 0 ELSE Len(ps) - 1) |->
                 <<ps[i], ps[i + 1]>>], IsChange)
FirstAt(q, x) == CHOOSE i \in 1..Len(q) : q[i] = x /\ \A j \in 1..(i - 1) : q[j] # x

\* C24: ExtractCallEdgesFromTrace, the entries without Program set aside,
\* returns one edge prev->cur for each pair of different Programs that occur
\* next to each other, each pair once and in the order in which the pairs
\* first occur; no edge has the same caller and callee, and the URIs of an
\* edge are the program path followed by the lower-cased names.
C24_TraceEdges ==
    xpc = "done"
      => LET changes == ChangesOf(ProgramsOf(entries))
             pairs == [i \in 1..Len(xedges) |->
                         <<xedges[i].CallerName, xedges[i].CalleeName>>]
         IN /\ {pairs[i] : i \in 1..Len(pairs)}
                 = {changes[i] : i \in 1..Len(changes)}
            /\ \A i, j \in 1..Len(pairs) :
                 i < j => FirstAt(changes, pairs[i]) < FirstAt(changes, pairs[j])
            /\ \A i \in 1..Len(xedges) :
                 /\ xedges[i].CallerName # xedges[i].CalleeName
                 /\ xedges[i].CallerURI = ProgramURI(xedges[i].CallerName)
                 /\ xedges[i].CalleeURI = ProgramURI(xedges[i].CalleeName)

\* a trace was read in which an entry without Program stands between two
\* different programs and a change of program occurs a second time
C24_Witness ==
    /\ xpc = "done"
    /\ \E i \in 2..(Len(entries) - 1) :
         /\ entries[i].Program = <<>>
         /\ entries[i - 1].Program # <<>>
         /\ entries[i + 1].Program # <<>>
         /\ entries[i - 1].Program # entries[i + 1].Program
    /\ Len(ChangesOf(ProgramsOf(entries))) = 3
    /\ Len(xedges) = 2

\* the outcome of the call of fn, "skipped" if fn was not called
OutcomeOf(fn) ==
    IF \E i \in 1..Len(ecalls) : ecalls[i].fn = fn
      THEN ecalls[CHOOSE i \in 1..Len(ecalls) : ecalls[i].fn = fn].outcome
      ELSE "skipped"
TimesCalled(fn) == Cardinality({i \in 1..Len(ecalls) : ecalls[i].fn = fn})

\* C25: TraceExecution returns a result and no error whatever steps fail.
\* Each step runs when its options ask for it, whatever the steps before it
\* did: GetCalleesOf when ObjectURI is set, RunUnitTests when RunTests and
\* TestObjectURI are set, ListTraces always, GetTrace when traces were
\* listed.  A step that fails leaves its field nil: StaticGraph and
\* StaticStats are set exactly when GetCalleesOf gave a graph, ExecutedTests
\* only when the tests ran, Trace and ActualEdges exactly when GetTrace gave
\* an analysis, and Comparison exactly when StaticGraph and Trace are set.
C25_FaultTolerant ==
    epc = "done"
      => /\ eret.returned
         /\ eret.err = "nil"
         /\ eret.result = result
         /\ TimesCalled("GetCalleesOf") = IF opts.ObjectURI # "" THEN 1 ELSE 0
         /\ TimesCalled("RunUnitTests")
              = IF opts.RunTests /\ opts.TestObjectURI # "" THEN 1 ELSE 0
         /\ TimesCalled("ListTraces") = 1
         /\ TimesCalled("GetTrace")
              = IF OutcomeOf("ListTraces") = "traces" THEN 1 ELSE 0
         /\ result.StaticGraph # "nil" <=> OutcomeOf("GetCalleesOf") = "graph"
         /\ result.StaticStats # "nil" <=> result.StaticGraph # "nil"
         /\ result.ExecutedTests # "nil" => OutcomeOf("RunUnitTests") = "tests"
         /\ result.Trace # "nil" <=> OutcomeOf("GetTrace") = "analysis"
         /\ result.ActualEdges # "nil" <=> result.Trace # "nil"
         /\ result.Comparison # "nil"
              <=> (result.StaticGraph # "nil" /\ result.Trace # "nil")

\* GetCalleesOf and RunUnitTests failed, and the trace was still obtained
C25_Witness ==
    /\ epc = "done"
    /\ OutcomeOf("GetCalleesOf") = "err"
    /\ OutcomeOf("RunUnitTests") = "err"
    /\ result.Trace = "analysis"
    /\ result.Comparison = "nil"
    /\ eret.err = "nil"

\* C26: once a call of WriteObject has ended, with success, with an error
\* of CreateObject, Lock, UpdateSource or Activate, or cancelled, the
\* caller holds no lock on the object, or the call returned StuckLock
\* naming the handle of the lock that is held.
C26_NoSilentLock ==
    wpc = "done"
      => /\ wresult.status \in {"Success", "Error", "Cancelled", "StuckLock"}
         /\ wlock = NoHandle
              \/ (wresult.status = "StuckLock" /\ wresult.handle = wlock)
         /\ wresult.status = "Success" => wlock = NoHandle

\* a call whose UpdateSource was cancelled ended with the lock still held
C26_Witness ==
    /\ wpc = "done"
    /\ wlock = LockHandle
    /\ wresult.status = "StuckLock"
    /\ \E i \in 1..Len(wcalls) :
         wcalls[i].fn = "UpdateSource" /\ wcalls[i].outcome = "cancelled"

\* the includes of the UpdateSource calls made, in order
IsUpdate(c) == c.fn = "UpdateSource"
UpdateCalls == SelectSeq(wcalls, IsUpdate)

\* C27: the UpdateSource calls of one WriteObject call go through the
\* includes in the caller's order; after the first one that does not succeed
\* no further UpdateSource is made, the next call is Unlock, and the result
\* lists in PartialSuccess the includes written before it, which are the
\* includes SAP holds.
C27_OrderedUpdates ==
    /\ Len(UpdateCalls) <= Len(wreq.sources)
    /\ \A i \in 1..Len(UpdateCalls) :
         /\ UpdateCalls[i].include = wreq.sources[i]
         /\ i < Len(UpdateCalls) => UpdateCalls[i].outcome = "ok"
    /\ \A i \in 1..Len(wcalls) :
         (wcalls[i].fn = "UpdateSource" /\ wcalls[i].outcome # "ok" /\ i < Len(wcalls))
           => (i + 1 = Len(wcalls) /\ wcalls[i + 1].fn = "Unlock")
    /\ (wpc = "done" /\ UpdateCalls # <<>>
          /\ UpdateCalls[Len(UpdateCalls)].outcome # "ok")
         => /\ wresult.PartialSuccess = SubSeq(wreq.sources, 1, Len(UpdateCalls) - 1)
            /\ wupdated = wresult.PartialSuccess
            /\ wresult.include = wreq.sources[Len(UpdateCalls)]
            /\ wcalls[Len(wcalls)].fn = "Unlock"

\* the third include of a call failed after two were written
C27_Witness ==
    /\ wpc = "done"
    /\ Len(UpdateCalls) = 3
    /\ UpdateCalls[3].outcome = "failed"
    /\ wresult.status = "Error"
    /\ Len(wresult.PartialSuccess) = 2

\* the exchanges of the call that carried the request itself, the token
\* fetches, and the first request answered 403 with X-CSRF-Token: Required
IsRequest(x) == x.kind = "request"
IsFetch(x) == x.kind = "fetch"
Expired(x) ==
    /\ x.kind = "request"
    /\ x.Method \notin SafeMethods
    /\ x.answer = Response(StatusForbidden, TRUE)
FirstExpired == CHOOSE i \in 1..Len(qlog) :
                    Expired(qlog[i]) /\ \A j \in 1..(i - 1) : ~Expired(qlog[j])

\* C28: when a non-safe request is answered 403 with X-CSRF-Token:
\* Required, Transport purges the cached token, fetches a token once and
\* sends the original request once more with the new token; whatever the
\* answer to that, a 403 included, it goes to the caller with no further
\* fetch or request.
C28_CsrfRetryOnce ==
    (\E i \in 1..Len(qlog) : Expired(qlog[i]))
      => LET i == FirstExpired
         IN /\ Len(qlog) <= i + 2
            /\ Len(qlog) > i
                 => /\ IsFetch(qlog[i + 1])
                    /\ qlog[i + 1].sent = NoToken
            /\ Len(qlog) > i + 1
                 => /\ IsRequest(qlog[i + 2])
                    /\ qlog[i + 2].Method = qlog[i].Method
                    /\ qlog[i + 2].path = qlog[i].path
                    /\ qlog[i + 2].sent # NoToken
                    /\ qlog[i + 2].sent # qlog[i].sent
            /\ qpc = "done"
                 => /\ Len(qlog) > i
                    /\ qlog[i + 1].answer.Status = StatusOK => Len(qlog) = i + 2
                    /\ qresult = qlog[Len(qlog)].answer

\* the request sent again was answered 403 with X-CSRF-Token: Required too
C28_Witness ==
    /\ qpc = "done"
    /\ Len(SelectSeq(qlog, Expired)) = 2
    /\ Len(SelectSeq(qlog, IsFetch)) = 1
    /\ qresult = Response(StatusForbidden, TRUE)

\* C29: in read-only mode the check denies every operation of a class other
\* than Read, by the first rule and with the reason "read-only mode",
\* whatever the name and the package lists; it allows an operation of class
\* Read that is about no package.
C29_ReadOnlyDeniesNonRead ==
    (ppc = "done" /\ policy.mode = "read-only")
      => /\ pop.class # "Read"
              => pdecision = Decision("Denied", 1, "read-only mode")
         /\ (pop.class = "Read" /\ pop.name = <<>>) => pdecision.kind = "ok"

\* a Debug operation on an allowed development package was denied in
\* read-only mode
C29_Witness ==
    /\ ppc = "done"
    /\ policy.mode = "read-only"
    /\ pop.class = "Debug"
    /\ pop.name = <<"Z", "P">>
    /\ policy.AllowedPackages = {<<"Z", "P">>}
    /\ policy.BlockedPackages = {}
    /\ pdecision.kind = "Denied"

\* C30: for every message-class document, modifyMessageClassXML called with
\* an empty update map returns the bytes it was given, piece for piece, an
\* empty map of updated msgnos and an empty list of deleted msgnos.
C30_NoOpByteStable ==
    (mcpc = "done" /\ DOMAIN updates = {})
      => /\ mcret.returned
         /\ mcret.result = xmlInput
         /\ DOMAIN mcret.updated = {}
         /\ mcret.deleted = <<>>

\* a document with line breaks, the mc: prefix and an empty paired record
\* went through a call with an empty update map
C30_Witness ==
    /\ mcpc = "done"
    /\ DOMAIN updates = {}
    /\ \E i \in 1..Len(xmlInput) : xmlInput[i].form = "paired"
    /\ \E i \in 1..Len(xmlInput) : xmlInput[i].kind = "text"
    /\ \E i \in 1..Len(xmlInput) : xmlInput[i].prefix = "mc:"
    /\ mcret.result = xmlInput


\* C31: for every document and update map, the map of updated msgnos that
\* modifyMessageClassXML returns holds exactly the msgnos given a non-empty
\* text, each with that text, whether the record was there and replaced or
\* absent and inserted; the list of deleted msgnos holds, once each, exactly
\* the msgnos given an empty text whose record was in the document; no msgno
\* is in both.
DeletedSet == {mcret.deleted[i] : i \in 1..Len(mcret.deleted)}
C31_ResultSets ==
    mcpc = "done"
      => /\ DOMAIN mcret.updated = {n \in DOMAIN updates : updates[n] # <<>>}
         /\ \A n \in DOMAIN mcret.updated : mcret.updated[n] = updates[n]
         /\ DeletedSet = {n \in DOMAIN updates :
                            updates[n] = <<>> /\ PlacesOf(xmlInput, n) # {}}
         /\ Cardinality(DeletedSet) = Len(mcret.deleted)
         /\ DeletedSet \cap DOMAIN mcret.updated = {}

\* a call deleted record 001 and inserted record 004, another replaced 001
\* and was asked to delete the absent 004
C31_Witness ==
    /\ mcpc = "done"
    /\ DOMAIN updates = {"001", "004"}
    /\ PlacesOf(xmlInput, "001") # {}
    /\ \/ /\ updates["001"] = <<>>
          /\ updates["004"] # <<>>
          /\ mcret.deleted = <<"001">>
          /\ DOMAIN mcret.updated = {"004"}
       \/ /\ updates["001"] # <<>>
          /\ updates["004"] = <<>>
          /\ mcret.deleted = <<>>
          /\ DOMAIN mcret.updated = {"001"}

\* C32: after modifyMessageClassXML has applied an update map, for every
\* msgno N given a non-empty text T the edited document has exactly one
\* messages record with msgno N, and the tolerant decoder reads T as its
\* msgtext; for every msgno given an empty text the document has no record
\* with that msgno and no child or end tag of it; the records the map does
\* not name, with their children, are the ones of the input, unchanged and in
\* the same order.
BelongsToOther(p) ==
    p.kind \in {"messages", "link", "end"} /\ p.msgno \notin DOMAIN updates
C32_RoundTrip ==
    mcpc = "done"
      => /\ \A n \in DOMAIN updates :
              IF updates[n] # <<>>
                THEN /\ Cardinality(PlacesOf(mcret.result, n)) = 1
                     /\ \A i \in PlacesOf(mcret.result, n) :
                          DecodeText(mcret.result[i].msgtext)
                            = [ok |-> TRUE, text |-> updates[n]]
                ELSE \A i \in 1..Len(mcret.result) : mcret.result[i].msgno # n
         /\ SelectSeq(mcret.result, BelongsToOther)
              = SelectSeq(xmlInput, BelongsToOther)

\* record 001, paired around an atom:link, was deleted next to a record 002
\* of the same form, and a record 004 with the text a&< was inserted
C32_Witness ==
    /\ mcpc = "done"
    /\ DOMAIN updates = {"001", "004"}
    /\ updates["001"] = <<>>
    /\ updates["004"] = <<"a", "&", "<">>
    /\ \E i \in PlacesOf(xmlInput, "001") : xmlInput[i].form = "children"
    /\ \E i \in PlacesOf(xmlInput, "002") : xmlInput[i].form = "children"
    /\ \E i \in PlacesOf(mcret.result, "002") : mcret.result[i].form = "children"
    /\ PlacesOf(mcret.result, "001") = {}
    /\ PlacesOf(mcret.result, "004") # {}


\* the positions at which POST /step, GET /stack and /variables test the
\* status of the session they took from the slot
StatusChecks == {"step_check", "stack_check", "vars_check"}
GatedEndpoints == {"handleStep", "handleStack", "handleVariables"}

\* C33: POST /step, GET /stack and /variables that find the slot empty, or
\* whose test finds a session with another status than attached (waiting,
\* caught, attach_failed, timeout, error, stopped), answer 400 in that step,
\* call SAP in no way and leave the slot and every session as they are; a
\* DebuggerGetStack or DebuggerGetVariables call made in the step of the
\* test is only made for a session whose status the test found attached, and
\* a DebuggerStep call only by a handler that went on from such a test.
C33_GatedOnAttached ==
    [][/\ \A h \in Handlers :
            /\ (/\ hpc[h] \in StatusChecks
                /\ hpc'[h] # hpc[h]
                /\ sess[ls[h]].Status # "attached")
               => (/\ resp'.h = h
                   /\ resp'.op \in GatedEndpoints
                   /\ resp'.code = StatusBadRequest
                   /\ calls' = {}
                   /\ sess' = sess
                   /\ slot' = slot)
            /\ (/\ hpc[h] = "idle"
                /\ resp'.h = h
                /\ resp'.op \in GatedEndpoints
                /\ resp'.code # StatusMethodNotAllowed)
               => (/\ slot = Nil
                   /\ resp'.code = StatusBadRequest
                   /\ calls' = {}
                   /\ sess' = sess
                   /\ slot' = slot)
            /\ (hpc[h] = "idle" /\ hpc'[h] \in StatusChecks)
               => (slot # Nil /\ ls'[h] = slot /\ calls' = {} /\ sess' = sess)
       /\ \A c \in calls' :
            c.name \in {"DebuggerStep", "DebuggerGetVariables"}
              => \E h \in Handlers :
                   /\ hpc'[h] # hpc[h]
                   /\ ls[h] = c.sess
                   /\ \/ hpc[h] \in StatusChecks /\ sess[c.sess].Status = "attached"
                      \/ hpc[h] = "step_call"
       /\ \A h \in Handlers :
            hpc'[h] = "step_call"
              => \/ hpc[h] = "step_call"
                 \/ hpc[h] = "step_check" /\ sess[ls[h]].Status = "attached"
    ]_vars

\* GET /stack has just been answered 400 for a session the listener had
\* caught but not yet attached
C33_Witness ==
    /\ resp.op = "handleStack"
    /\ resp.code = StatusBadRequest
    /\ resp.id # Nil
    /\ sess[resp.id].Status = "caught"
    /\ calls = {}


\* C34: a POST /step handler that takes a step on a session whose status a
\* DELETE /session has set to stopped issues no DebuggerStep call for it and
\* leaves its Stack, CurrentURI and CurrentLine as they are.
C34_NoStepAfterStop ==
    [][\A h \in Handlers :
         (/\ hpc[h] \in {"step_check", "step_call", "step_update"}
          /\ hpc'[h] # hpc[h]
          /\ sess[ls[h]].Status = "stopped")
         => (/\ \A c \in calls' : c.name # "DebuggerStep"
             /\ sess'[ls[h]].Stack = sess[ls[h]].Stack
             /\ sess'[ls[h]].CurrentURI = sess[ls[h]].CurrentURI
             /\ sess'[ls[h]].CurrentLine = sess[ls[h]].CurrentLine)
    ]_vars


\* C35: the conflict test of POST /session accepts the request, allocating a
\* session, putting it in the slot and starting its listener, exactly when
\* the slot is empty or the session in it has status stopped, and answers
\* 409 otherwise, so also for a session that ended with timeout, error or
\* attach_failed as long as no DELETE /session has stopped it; no step, and
\* no DELETE /session, empties a slot that holds a session, GET /session
\* answers no_session only while no session was ever started, and otherwise
\* reports the session in the slot with the status it has.
C35_AcceptedWhenEmptyOrStopped ==
    [][/\ \A h \in Handlers :
            /\ (hpc[h] = "start_check" /\ hpc'[h] # "start_check")
               => IF slot = Nil \/ sess[slot].Status = "stopped"
                    THEN /\ nsess' = nsess + 1
                         /\ slot' = nsess + 1
                         /\ sess'[slot'].Status = "waiting"
                         /\ lpc[slot'] = "none"
                         /\ lpc'[slot'] = "listen"
                         /\ hpc'[h] = "start_resp"
                    ELSE /\ resp'.h = h
                         /\ resp'.op = "startSession"
                         /\ resp'.code = StatusConflict
                         /\ slot' = slot
                         /\ nsess' = nsess
                         /\ lpc' = lpc
            /\ (hpc[h] = "stop_set" /\ hpc'[h] # "stop_set")
               => (slot # Nil /\ slot' = slot)
            /\ (hpc[h] = "get_read" /\ hpc'[h] # "get_read")
               => (/\ resp'.h = h
                   /\ resp'.code = StatusOK
                   /\ resp'.id = ls[h]
                   /\ resp'.status = sess[ls[h]].Status)
       /\ slot # Nil => slot' # Nil
       /\ (resp'.op = "getSession" /\ resp'.status = "no_session")
            => (slot = Nil /\ nsess = 0)
    ]_vars

\* a POST /session has just been answered 409 because of a session whose
\* listener ended with a failed attach
C35_Witness ==
    /\ resp.op = "startSession"
    /\ resp.code = StatusConflict
    /\ slot # Nil
    /\ sess[slot].Status = "attach_failed"
    /\ lpc[slot] = "done"


\* the step is one of the listener of session s
ListenerMoves(s) == lpc[s] # "none" /\ lpc'[s] # lpc[s]

\* C36: a step of the listener started for a session writes fields of that
\* session only: it leaves the slot and every other session as they are, in
\* particular the session that has replaced its own in the slot, and every
\* access it makes is to its own session.
C36_ListenerIsolation ==
    [][\A s \in SessionIds :
         ListenerMoves(s)
           => (/\ slot' = slot
               /\ \A u \in SessionIds : u # s => sess'[u] = sess[u]
               /\ \A a \in acc' : a.task = ListenerOf(s) /\ a.obj = s)
    ]_vars

\* the listener of the first session, stopped and replaced in the slot by a
\* second one, has just written the outcome of its long-poll
C36_Witness ==
    /\ slot = 2
    /\ sess[2] = NewSession
    /\ lpc[1] = "done"
    /\ sess[1].Status = "timeout"
    /\ \E a \in acc : a.task = ListenerOf(1) /\ a.obj = 1 /\ a.write


\* the mutexes the task holds: Nil for that of the daemon, a session for
\* that of the session
HeldBy(t) ==
    (IF dmu = t THEN {Nil} ELSE {}) \cup {s \in SessionIds : smu[s] = t}

\* C37: a task that takes the daemon mutex holds no session mutex, and a
\* task that takes a session mutex holds at most the daemon mutex; with every
\* call to SAP returning, every handler that has taken its request finishes
\* and every mutex that is held is released again: time and again each
\* handler is idle and each mutex free.
C37_DeadlockFree ==
    /\ [][\A t \in Handlers \cup {ListenerOf(s) : s \in SessionIds} :
            /\ (dmu' = t /\ dmu # t) => HeldBy(t) = {}
            /\ \A s \in SessionIds :
                 (smu'[s] = t /\ smu[s] # t) => HeldBy(t) \subseteq {Nil}
            /\ \A a \in acc' :
                 (a.task = t /\ a.obj # Nil /\ a.held)
                   => HeldBy(t) \subseteq {Nil, a.obj}]_vars
    /\ \A h \in Handlers : []<>(hpc[h] = "idle")
    /\ []<>(dmu = Free)
    /\ \A s \in SessionIds : []<>(smu[s] = Free)

\* a POST /breakpoint holding the daemon mutex waits for the mutex of the
\* session in the slot, which the listener holds during its attach call
C37_Witness ==
    \E h \in Handlers :
      /\ hpc[h] = "track_append"
      /\ dmu = h
      /\ slot # Nil
      /\ smu[slot] = ListenerOf(slot)
      /\ lpc[slot] = "attach"


\* the statuses a listener leaves behind when it ends
ListenerFinal == {"error", "timeout", "attach_failed", "attached"}

\* C38: the listener started by an accepted POST /session ends, with every
\* call to SAP returning: time and again it is not running.  It ends once,
\* closing ListenerDone: a listener that has ended stays ended and one that
\* was started is never unstarted.  In the step in which it ends it has
\* released the session mutex and the status of its session is error,
\* timeout, attach_failed or attached, not waiting and not caught.
C38_ListenerTerminates ==
    /\ [][\A s \in SessionIds :
            /\ lpc[s] = "done" => lpc'[s] = "done"
            /\ lpc[s] # "none" => lpc'[s] # "none"
            /\ (lpc[s] # "done" /\ lpc'[s] = "done")
               => (/\ sess'[s].Status \in ListenerFinal
                   /\ smu'[s] = Free)
            /\ (lpc[s] = "none" /\ lpc'[s] # "none")
               => (/\ lpc'[s] = "listen"
                   /\ slot' = s
                   /\ \E h \in Handlers : hpc'[h] = "start_resp" /\ ls'[h] = s)]_vars
    /\ \A s \in SessionIds : []<>(~ListenerRunning(s))

\* the listener of a session has just ended after a successful attach and
\* the read of the initial stack
C38_Witness ==
    \E s \in Allocated :
      /\ lpc[s] = "done"
      /\ sess[s].Status = "attached"
      /\ sess[s].Stack # <<>>
      /\ smu[s] = Free
      /\ Call("DebuggerGetStack", s, TRUE) \in calls


\* C39: the Breakpoints of a session change only by the append of one entry
\* at the end, made by a POST /breakpoint that answers 200 in that step, to
\* the session then in the slot whatever its status; such a POST /breakpoint
\* that finds the slot empty answers 200 and changes no session; a step that
\* answers GET /breakpoints or DELETE /breakpoint, whatever SAP said, leaves
\* the Breakpoints of every session as they are.
C39_BreakpointsOnlyGrow ==
    [][/\ \A s \in SessionIds :
            sess'[s].Breakpoints # sess[s].Breakpoints
              => (/\ s = slot
                  /\ Len(sess'[s].Breakpoints) = Len(sess[s].Breakpoints) + 1
                  /\ SubSeq(sess'[s].Breakpoints, 1, Len(sess[s].Breakpoints))
                       = sess[s].Breakpoints
                  /\ resp'.op = "setBreakpoint"
                  /\ resp'.code = StatusOK)
       /\ \A h \in Handlers :
            (hpc[h] = "track_append" /\ hpc'[h] # "track_append")
              => (/\ resp'.h = h
                  /\ resp'.op = "setBreakpoint"
                  /\ resp'.code = StatusOK
                  /\ IF slot = Nil
                       THEN sess' = sess
                       ELSE sess' = [sess EXCEPT ![slot].Breakpoints =
                                                   Append(@, body[h])])
       /\ (resp'.op = "setBreakpoint" /\ resp'.code = StatusOK)
            => \E h \in Handlers : hpc[h] = "track_append" /\ resp'.h = h
       /\ resp'.op \in {"listBreakpoints", "deleteBreakpoint"}
            => \A s \in SessionIds : sess'[s].Breakpoints = sess[s].Breakpoints
    ]_vars

\* a POST /breakpoint has just added the first entry to the list of a stopped
\* session in the slot
C39_Witness ==
    /\ resp.op = "setBreakpoint"
    /\ resp.code = StatusOK
    /\ slot # Nil
    /\ sess[slot].Status = "stopped"
    /\ Len(sess[slot].Breakpoints) = 1

====
